---- MODULE Spec2Model ----
(***************************************************************************)
(* traderdesk_v2: the EMA monitor (app/services/market_monitor.py), the    *)
(* two order-submitting loops (signal_trader.py, timed_signal_trader.py),  *)
(* the alert loop with its seen-signal ledger (app/trading/                *)
(* signal_trader.py) and the bracket executor they share.                  *)
(*                                                                         *)
(* Numbers.  Python floats are modelled in fixed point: every price, EMA   *)
(* value and point distance is an integer count of 10^-6 points (Unit per  *)
(* point).  Timestamps are minutes since an epoch.  The ISO-8601 string of *)
(* a timestamp is the triple <<day, hour, minute>>.  Python's None is the  *)
(* value None, pandas' NaN the value NaN; no price, EMA value or timestamp *)
(* of the model is negative, so neither is mistaken for a number.          *)
(*                                                                         *)
(* Configuration.  The environment defaults of the source are modelled:    *)
(* CHART_SESSION = ETH (no session filter), INCLUDE_PARTIAL_BARS = false,  *)
(* EXACT_MATCH_ON_CLOSE = true, EMA_CROSS_EPS = 0, BAR_TIMESTAMP_MODE =    *)
(* open, and app/indicators/ema.py without talib (the pandas ewm branch).  *)
(* EMA200_SMOOTH_TYPE is "" in the programs and either value where the     *)
(* MarketMonitor methods are called directly.                              *)
(***************************************************************************)
EXTENDS Integers, Sequences, FiniteSets, TLC

VARIABLES
    prog,       \* which program runs: "signal_trader", "timed_signal_trader", "alert_trader",
                \* "round", or "monitor" (a caller of the MarketMonitor methods)
    DRY_RUN,    \* the DRY_RUN environment flag of the process
    NOTIFY_ON_DRY, \* timed_signal_trader.py NOTIFY_ON_DRY_RUN
    BAR_TS_MODE, \* timed_signal_trader.py BAR_TIMESTAMP_MODE: "open" or "close"
    EMA200_SMOOTH_TYPE, \* market_monitor.py EMA200_SMOOTH_TYPE: "sma" or ""
    first,      \* BarSource: index of the oldest bar of the base history it still holds
    slope,      \* BarSource: the rise of the close from one bar of the base history to the
                \* next (0: the base history is flat)
    clock,      \* wall clock, in quarter hours since the epoch: bar k is open during quarter k
    tail,       \* BarSource: per symbol, the closed bars published after the flat base history
    state,      \* per symbol, MarketMonitor.state
    last_sent_by_symbol, \* per symbol, as_of of the last bar acted on (in memory), or NoAsOf
    pos,        \* index in Symbols of the next symbol the running cycle processes
    target,     \* timed loop: quarter whose start is the bar close being awaited; None while not waiting
    tries,      \* timed loop: get_snapshot attempts already made for Symbols[pos] in this cycle
    run,        \* number of the process run (a restart starts the next run)
    calls,      \* every call made to the broker's order API, oldest first
    trades_log, \* the TRADES_LOG file, oldest event first
    notified,   \* events handed to the notification channels, oldest first
    console,    \* lines the order loops and the bracket executor print, oldest first
    pc,         \* where the process is: "loop" in the order loops; alert loop: "load",
                \* "init", "wait", "check", or "dead" after an uncaught exception
    last_info,  \* alert loop: per symbol the last bar reported (in memory)
    seen,       \* alert loop: the in-memory set of event ids
    printed,    \* alert loop: the symbols already reported in the running check
    seen_file,  \* alert loop: the SEEN_SIGNALS_FILE content, a JSON list
    rprice,     \* rounding check: the price given to _round_to_tick
    rtick,      \* rounding check: the tick given to _round_to_tick
    rout,       \* rounding check: the result, None before the call
    fin,        \* function check: the function called and its arguments
    fout,       \* function check: the result, NoResult before the call
    mon,        \* monitor check: the last MarketMonitor method called, with what it was
                \* given, the state before it and what it returned
    shots       \* signal check: for every get_snapshot of the driving loop, oldest first,
                \* the bar it found, the state it left and the Snapshot it returned

vars == <<prog, DRY_RUN, NOTIFY_ON_DRY, BAR_TS_MODE, EMA200_SMOOTH_TYPE, first, slope, clock, tail, state, last_sent_by_symbol, pos,
          target, tries, run, calls, trades_log, notified, console, pc, last_info, seen,
          printed, seen_file, rprice, rtick, rout, fin, fout, mon, shots>>

\* the process environment (with the depth of the BarSource's history), the alert
\* loop's data, the rounding check's data and the monitor check's data
envVars == <<prog, DRY_RUN, NOTIFY_ON_DRY, BAR_TS_MODE, EMA200_SMOOTH_TYPE, first, slope>>
alertVars == <<last_info, seen, printed, seen_file>>
roundVars == <<rprice, rtick, rout, fin, fout>>
monVars == <<mon, shots>>

None == -1
\* function check: no call was made yet
NoResult == [done |-> FALSE]
NaN == -2
Unit == 10^6

-----------------------------------------------------------------------------
(* Configuration of app/services/market_monitor.py *)

BAR_MINUTES == 15
REQUIRED_BARS == 205
PERIOD_FAST == 50
PERIOD_SLOW == 200
GAP_SECONDS == 1200
EMA200_SMOOTH_LENGTH == 9
EPS == 0
NoExactMatch == FALSE
EXACT_MATCH_ON_CLOSE == TRUE
WARMUP_BARS == 1000
TAIL_BARS == 1200

Symbols == <<"MNQ", "ES">>
SymbolSet == {Symbols[i] : i \in 1..Len(Symbols)}
ContractId(sym) == IF sym = "MNQ" THEN "CON.F.US.MNQ" ELSE "CON.F.US.EP"

-----------------------------------------------------------------------------
(* BarSource.  The history of a symbol is the bars first..BaseBars, whose   *)
(* closes rise by `slope` a bar up to BaseClose (all close at BaseClose    *)
(* when slope is 0), followed by the bars of tail[sym]; bar k has the open *)
(* time k * BAR_MINUTES.                                                   *)

BaseBars == 203
MaxFirst == 3
MaxNewBars == 1
MaxClock == 2
BaseClose == 100 * Unit
Lo == BaseClose - 4 * Unit
Hi == BaseClose + 4 * Unit
Closes == {Lo, Hi}

Max(a, b) == IF a >= b THEN a ELSE b
Min(a, b) == IF a <= b THEN a ELSE b

Bar(k, c) == [t |-> k * BAR_MINUTES, c |-> c]

\* the rises per bar of the base histories: none, 0.0005, 0.05 and 0.25 points
Slopes == {0, Unit \div 2000, Unit \div 20, Unit \div 4}

BaseClosesOf(s) == [i \in 1..BaseBars |-> BaseClose - (BaseBars - i) * s]
BaseCloses == BaseClosesOf(slope)
BaseHistory == [i \in 1..BaseBars |-> Bar(i, BaseCloses[i])]

AllBars(tl) == SubSeq(BaseHistory, first, BaseBars) \o tl

LastN(s, n) == IF Len(s) <= n THEN s ELSE SubSeq(s, Len(s) - n + 1, Len(s))

\* retrieve_bars(include_partial=False): the most recent `limit` closed bars, ascending.
\* Its look-back windows (2, 14 and 30 days) hold every bar the calls of the model
\* can return, so the window is not a parameter.
retrieve_bars(tl, limit) ==
    IF limit <= Len(tl) THEN LastN(tl, limit) ELSE LastN(AllBars(tl), limit)

-----------------------------------------------------------------------------
(* app/indicators/ema.py, the pandas branch: ewm(span, adjust=False,       *)
(* min_periods=period).mean().  y[1] = x[1], y[i] = y[i-1] + a*(x[i] -     *)
(* y[i-1]) with a = 2/(period+1); the first period-1 values are NaN.       *)

EmaStep(e, c, period) == e + (2 * (c - e)) \div (period + 1)

\* the recurrence run over closes[lo..hi] from the value e: the left half first, and
\* the right half from the value `left` the left half ended with
RECURSIVE EwmFold(_, _, _, _, _)
EwmFold(closes, period, lo, hi, e) ==
    IF lo > hi THEN e
    ELSE IF lo = hi THEN EmaStep(e, closes[lo], period)
    ELSE CHOOSE y \in {EwmFold(closes, period, ((lo + hi) \div 2) + 1, hi, left) :
                         left \in {EwmFold(closes, period, lo, (lo + hi) \div 2, e)}} : TRUE

\* The recurrence over the base history, which every data frame of the model starts
\* with, is computed once per slope, per period and per number of base bars held.
BaseEmaAt ==
    [s \in Slopes |->
        [held \in (BaseBars - MaxFirst + 1)..BaseBars |->
            [period \in {PERIOD_FAST, PERIOD_SLOW} |->
                EwmFold(BaseClosesOf(s), period, BaseBars - held + 2, BaseBars,
                        BaseClosesOf(s)[BaseBars - held + 1])]]]
BaseEmaFast == BaseEmaAt[slope][BaseBars - first + 1][PERIOD_FAST]
BaseEmaSlow == BaseEmaAt[slope][BaseBars - first + 1][PERIOD_SLOW]

EwmRaw(closes, period, i) ==
    IF /\ i >= BaseBars - first + 1
       /\ period \in {PERIOD_FAST, PERIOD_SLOW}
       /\ Len(closes) >= BaseBars - first + 1
       /\ SubSeq(closes, 1, BaseBars - first + 1) = SubSeq(BaseCloses, first, BaseBars)
    THEN EwmFold(closes, period, BaseBars - first + 2, i,
                 IF period = PERIOD_FAST THEN BaseEmaFast ELSE BaseEmaSlow)
    ELSE EwmFold(closes, period, 2, i, closes[1])

\* the raw values at the indices i-m+1 .. i, oldest first
RECURSIVE EwmTail(_, _, _, _)
EwmTail(closes, period, i, m) ==
    IF m = 1 THEN <<EwmRaw(closes, period, i)>>
    ELSE LET before == EwmTail(closes, period, i - 1, m - 1)
         IN  Append(before, EmaStep(before[Len(before)], closes[i], period))

\* ema_ind(series, period) at the indices i-m+1 .. i (NaN before min_periods)
ema_ind(closes, period, i, m) ==
    LET lo == i - m + 1
        k  == Max(lo, 1)
        raw == EwmTail(closes, period, i, i - k + 1)
    IN  [j \in 1..m |->
            LET idx == lo + j - 1
            IN  IF idx < period THEN NaN ELSE raw[idx - k + 1]]

RECURSIVE SumSeq(_)
SumSeq(s) == IF s = <<>> THEN 0 ELSE s[1] + SumSeq(Tail(s))

SmoothOn == EMA200_SMOOTH_TYPE = "sma" /\ EMA200_SMOOTH_LENGTH > 1

\* Series.rolling(K).mean() at the last index of `vals`: NaN unless K values, none NaN
RollingMean(vals, K) ==
    IF Len(vals) < K THEN NaN
    ELSE LET w == LastN(vals, K)
         IN  IF \E j \in 1..K : w[j] = NaN THEN NaN ELSE SumSeq(w) \div K

-----------------------------------------------------------------------------
(* MarketMonitor *)

InitState ==
    [seeded |-> FALSE, bars |-> 0,
     prev_ts |-> None, prev_close |-> None, prev_e50 |-> None,
     prev_e200_base |-> None, prev_e200 |-> None,
     curr_ts |-> None, curr_close |-> None, curr_e50 |-> None,
     curr_e200_base |-> None, curr_e200 |-> None,
     ema200_buf |-> <<>>]

\* The columns of the data frame at its last two rows, and the smoothing buffer.
Frame(bars) ==
    LET n      == Len(bars)
        closes == [i \in 1..n |-> bars[i].c]
        K      == EMA200_SMOOTH_LENGTH
        m      == IF SmoothOn THEN Min(n, K + 1) ELSE 2
        buf_len == Max(1, IF EMA200_SMOOTH_TYPE = "sma" THEN K ELSE 1)
        \* e50 and base are the columns "ema50" and "ema200_base" at the last rows
        Rows(e50, base) ==
            [n |-> n,
             prev |-> [ts |-> bars[n - 1].t, close |-> bars[n - 1].c, e50 |-> e50[1],
                       e200_base |-> base[m - 1],
                       e200 |-> IF SmoothOn THEN RollingMean(SubSeq(base, 1, m - 1), K)
                                ELSE base[m - 1]],
             curr |-> [ts |-> bars[n].t, close |-> bars[n].c, e50 |-> e50[2],
                       e200_base |-> base[m],
                       e200 |-> IF SmoothOn THEN RollingMean(base, K) ELSE base[m]],
             buf |-> LastN(base, buf_len)]
    IN  Rows(ema_ind(closes, PERIOD_FAST, n, 2), ema_ind(closes, PERIOD_SLOW, n, m))

StateOfFrame(f) ==
    [seeded |-> TRUE, bars |-> f.n,
     prev_ts |-> f.prev.ts, prev_close |-> f.prev.close, prev_e50 |-> f.prev.e50,
     prev_e200_base |-> f.prev.e200_base, prev_e200 |-> f.prev.e200,
     curr_ts |-> f.curr.ts, curr_close |-> f.curr.close, curr_e50 |-> f.curr.e50,
     curr_e200_base |-> f.curr.e200_base, curr_e200 |-> f.curr.e200,
     ema200_buf |-> f.buf]

TooFewNever(n) == FALSE

\* `n < REQUIRED_BARS` fails the seed and the recalculation
TooFew(n) == n < REQUIRED_BARS

\* the messages: f"Datos insuficientes {n}/{REQUIRED_BARS} ...", and the fixed texts
Insufficient(n) == <<"Datos insuficientes", n, REQUIRED_BARS>>
Msg(text) == <<text>>

\* _seed_from_history on the bars retrieve_bars returned: [ok, msg, st]
_seed_from_history(st, bars) ==
    IF TooFew(Len(bars)) THEN [ok |-> FALSE, msg |-> Insufficient(Len(bars)), st |-> st]
    ELSE LET Seeded(f) == IF f.curr.e200 = NaN \/ f.curr.e50 = NaN
                          THEN [ok |-> FALSE, msg |-> Msg("EMAs NaN"), st |-> st]
                          ELSE [ok |-> TRUE, msg |-> Msg("ok"), st |-> StateOfFrame(f)]
         IN  Seeded(Frame(bars))

RecalcOrForget(st, bars) ==
    IF bars = <<>> \/ TooFew(Len(bars))
    THEN [ok |-> FALSE, msg |-> Msg("Sin barras"), st |-> InitState]
    ELSE [ok |-> TRUE, msg |-> Msg("ok"), st |-> StateOfFrame(Frame(bars))]

RecalcKeepingCount(st, bars) ==
    [ok |-> TRUE, msg |-> Msg("ok"),
     st |-> [StateOfFrame(Frame(bars)) EXCEPT !.bars = st.bars]]

\* _recalc_tail on the bars retrieve_bars returned: [ok, msg, st]
_recalc_tail(st, bars) ==
    IF bars = <<>> THEN [ok |-> FALSE, msg |-> Msg("Sin barras"), st |-> st]
    ELSE IF TooFew(Len(bars))
    THEN [ok |-> FALSE, msg |-> Insufficient(Len(bars)), st |-> st]
    ELSE [ok |-> TRUE, msg |-> Msg("ok"), st |-> StateOfFrame(Frame(bars))]

\* _get_last_closed_bar: None (NoBar), or the last bar returned
NoBar == [t |-> None, c |-> None]
_get_last_closed_bar(bars) == IF bars = <<>> THEN NoBar ELSE bars[Len(bars)]

NewerAlways(curr_ts, ts) == TRUE
NewerOrSame(curr_ts, ts) == curr_ts = None \/ ts >= curr_ts

\* `st["curr_ts"] is None or ts > st["curr_ts"]`
Newer(curr_ts, ts) == curr_ts = None \/ ts > curr_ts

NoBaseNever(prev_e50, prev_e200_base) == FALSE

\* `prev_e50 is None or prev_e200_base is None`: nothing to advance from
NoBase(prev_e50, prev_e200_base) == prev_e50 = None \/ prev_e200_base = None

PushedUnbounded(buf, v) == Append(buf, v)

\* buf.append(new_e200_base), and buf.pop(0) beyond EMA200_SMOOTH_LENGTH values
Pushed(buf, v) ==
    IF Len(buf) + 1 > EMA200_SMOOTH_LENGTH THEN Tail(Append(buf, v)) ELSE Append(buf, v)

\* sum(buf) / len(buf): NaN as soon as one value is
Mean(buf) == IF \E j \in DOMAIN buf : buf[j] = NaN THEN NaN ELSE SumSeq(buf) \div Len(buf)

_advance_incremental(st, ts, close) ==
    IF Newer(st.curr_ts, ts)
    THEN LET moved == [st EXCEPT !.prev_ts = st.curr_ts, !.prev_close = st.curr_close,
                                 !.prev_e50 = st.curr_e50,
                                 !.prev_e200_base = st.curr_e200_base,
                                 !.prev_e200 = st.curr_e200]
         IN  IF NoBase(moved.prev_e50, moved.prev_e200_base) THEN moved
             ELSE LET new_e50  == EmaStep(moved.prev_e50, close, PERIOD_FAST)
                      new_e200 == EmaStep(moved.prev_e200_base, close, PERIOD_SLOW)
                      buf == IF SmoothOn THEN Pushed(moved.ema200_buf, new_e200)
                             ELSE moved.ema200_buf
                      shown == IF SmoothOn THEN Mean(buf) ELSE new_e200
                  IN  [moved EXCEPT !.ema200_buf = buf, !.curr_ts = ts,
                                    !.curr_close = close, !.curr_e50 = new_e50,
                                    !.curr_e200_base = new_e200, !.curr_e200 = shown,
                                    !.bars = st.bars + 1]
    ELSE st

ColorOfOpenBand(prev_close, prev_e50, prev_e200, curr_close, curr_e50, curr_e200) ==
    LET prev_in == Min(prev_e50, prev_e200) < prev_close
                   /\ prev_close < Max(prev_e50, prev_e200)
        curr_in == Min(curr_e50, curr_e200) < curr_close
                   /\ curr_close < Max(curr_e50, curr_e200)
    IN  IF prev_in THEN "green"
        ELSE IF curr_in THEN "yellow"
        ELSE "red"

_color_from_zone(prev_close, prev_e50, prev_e200, curr_close, curr_e50, curr_e200) ==
    LET prev_in == Min(prev_e50, prev_e200) <= prev_close
                   /\ prev_close <= Max(prev_e50, prev_e200)
        curr_in == Min(curr_e50, curr_e200) <= curr_close
                   /\ curr_close <= Max(curr_e50, curr_e200)
    IN  IF prev_in THEN "green"
        ELSE IF curr_in THEN "yellow"
        ELSE "red"

SignalWithLooseCross(prev_close, prev_e50, curr_close, curr_e50, curr_e200_base) ==
    IF (curr_e50 - curr_e200_base) > EPS
    THEN (IF prev_close <= prev_e50 - EPS /\ curr_close >= curr_e50 + EPS
          THEN "LONG" ELSE "None")
    ELSE IF (curr_e200_base - curr_e50) > EPS
    THEN (IF prev_close >= prev_e50 + EPS /\ curr_close <= curr_e50 - EPS
          THEN "SHORT" ELSE "None")
    ELSE "None"

SignalIgnoringPrev(prev_close, prev_e50, curr_close, curr_e50, curr_e200_base) ==
    IF (curr_e50 - curr_e200_base) > EPS
    THEN (IF curr_close > curr_e50 + EPS THEN "LONG" ELSE "None")
    ELSE IF (curr_e200_base - curr_e50) > EPS
    THEN (IF curr_close < curr_e50 - EPS THEN "SHORT" ELSE "None")
    ELSE "None"

_signal_cross50_with_bias(prev_close, prev_e50, curr_close, curr_e50, curr_e200_base) ==
    IF (curr_e50 - curr_e200_base) > EPS
    THEN (IF prev_close < prev_e50 - EPS /\ curr_close > curr_e50 + EPS
          THEN "LONG" ELSE "None")
    ELSE IF (curr_e200_base - curr_e50) > EPS
    THEN (IF prev_close > prev_e50 + EPS /\ curr_close < curr_e50 - EPS
          THEN "SHORT" ELSE "None")
    ELSE "None"

\* datetime.isoformat() with "+00:00" replaced by "Z", and datetime.fromisoformat back
\* (NoAsOf stands for the None of dict.get on a symbol without an entry)
NoAsOf == <<>>
IsoZ(ts) == <<ts \div 1440, (ts % 1440) \div 60, ts % 60>>
FromIso(s) == s[1] * 1440 + s[2] * 60 + s[3]

NoSnapshot == [has |-> FALSE]

SnapshotOfDisplayedEma(sym, st) ==
    IF st.curr_ts = None \/ st.curr_e50 = None \/ st.curr_e200 = None THEN NoSnapshot
    ELSE [has |-> TRUE, symbol |-> sym, contract_id |-> ContractId(sym),
          as_of |-> IsoZ(st.curr_ts), close |-> st.curr_close,
          ema50 |-> st.curr_e50, ema200 |-> st.curr_e200,
          color |-> IF None \notin {st.prev_close, st.prev_e50, st.prev_e200,
                                    st.curr_close, st.curr_e50, st.curr_e200}
                    THEN _color_from_zone(st.prev_close, st.prev_e50, st.prev_e200,
                                          st.curr_close, st.curr_e50, st.curr_e200)
                    ELSE "gray",
          signal |-> IF None \notin {st.prev_close, st.prev_e50, st.curr_close,
                                     st.curr_e50, st.curr_e200}
                     THEN _signal_cross50_with_bias(st.prev_close, st.prev_e50,
                              st.curr_close, st.curr_e50, st.curr_e200)
                     ELSE "None",
          bars |-> st.bars]

MakeSnapshot(sym, st) ==
    IF st.curr_ts = None \/ st.curr_e50 = None \/ st.curr_e200 = None THEN NoSnapshot
    ELSE LET full == None \notin {st.prev_close, st.prev_e50, st.prev_e200_base,
                                  st.curr_close, st.curr_e50, st.curr_e200_base}
         IN [has |-> TRUE, symbol |-> sym, contract_id |-> ContractId(sym),
             as_of |-> IsoZ(st.curr_ts), close |-> st.curr_close,
             ema50 |-> st.curr_e50, ema200 |-> st.curr_e200,
             color |-> IF full
                       THEN _color_from_zone(st.prev_close, st.prev_e50, st.prev_e200_base,
                                             st.curr_close, st.curr_e50, st.curr_e200_base)
                       ELSE "gray",
             signal |-> IF None \notin {st.prev_close, st.prev_e50, st.curr_close,
                                        st.curr_e50, st.curr_e200_base}
                        THEN _signal_cross50_with_bias(st.prev_close, st.prev_e50,
                                 st.curr_close, st.curr_e50, st.curr_e200_base)
                        ELSE "None",
             bars |-> st.bars]

\* get_debug_state: the colour it works out from the state
DebugColor(st) ==
    LET prev_in == Min(st.prev_e50, st.prev_e200_base) <= st.prev_close
                   /\ st.prev_close <= Max(st.prev_e50, st.prev_e200_base)
        curr_in == Min(st.curr_e50, st.curr_e200_base) <= st.curr_close
                   /\ st.curr_close <= Max(st.curr_e50, st.curr_e200_base)
    IN  IF prev_in THEN "green" ELSE IF ~prev_in /\ curr_in THEN "yellow" ELSE "red"

\* get_debug_state: bias, cross_up and cross_down
DebugConds(st) ==
    [bias |-> IF st.curr_e50 > st.curr_e200_base + EPS THEN "LONG"
              ELSE IF st.curr_e200_base > st.curr_e50 + EPS THEN "SHORT"
              ELSE "FLAT",
     cross_up |-> st.prev_close < st.prev_e50 - EPS /\ st.curr_close > st.curr_e50 + EPS,
     cross_down |-> st.prev_close > st.prev_e50 + EPS
                    /\ st.curr_close < st.curr_e50 - EPS]

\* get_debug_state: the signal it works out from the conditions (the second `if`
\* overrides the first)
DebugSignal(c) ==
    IF c.bias = "SHORT" /\ c.cross_down THEN "SHORT"
    ELSE IF c.bias = "LONG" /\ c.cross_up THEN "LONG"
    ELSE "None"

DebugWithoutSignal(st) == [st |-> st, color |-> DebugColor(st), signal |-> "None"]

\* get_debug_state: [st, color, signal], the state it leaves and the "color" and
\* "signal" of the dict it returns ("None" when a value of the state is missing)
get_debug_state(st) ==
    IF None \notin {st.prev_close, st.prev_e50, st.prev_e200_base,
                    st.curr_close, st.curr_e50, st.curr_e200_base}
    THEN [st |-> st, color |-> DebugColor(st), signal |-> DebugSignal(DebugConds(st))]
    ELSE [st |-> st, color |-> "None", signal |-> "None"]

GapNever(gap_s) == FALSE

GapAlways(gap_s) == TRUE

\* `gap_s > 20 * 60`
GapTooLarge(gap_s) == gap_s > GAP_SECONDS

\* get_snapshot.  `fail` is the number of the retrieve_bars call of this get_snapshot
\* that raises (0: none does).  The result is [st, snap, msg, raised, steps]; steps lists
\* the methods get_snapshot called, in the order of the calls.
get_snapshot(sym, st, tl, fail) ==
    LET seedBars == retrieve_bars(tl, Max(WARMUP_BARS, REQUIRED_BARS + 200))
        lastBars == retrieve_bars(tl, 2)
        tailBars == retrieve_bars(tl, TAIL_BARS)
        Raised(s, steps) ==
            [st |-> s, snap |-> NoSnapshot, msg |-> Msg("raised"), raised |-> TRUE,
             steps |-> steps]
        Nothing(s, msg, steps) ==
            [st |-> s, snap |-> NoSnapshot, msg |-> msg, raised |-> FALSE, steps |-> steps]
        Shown(s, snap, steps) ==
            [st |-> s, snap |-> snap, raised |-> FALSE, steps |-> steps,
             msg |-> IF snap = NoSnapshot THEN Msg("Aun sin snapshot actual") ELSE Msg("ok")]
        Done(s, steps) == Shown(s, MakeSnapshot(sym, s), steps)
        \* after a seed from history: a snapshot of the seeded state, or nothing
        Reseeded(s, r, steps) == IF r.ok THEN Done(r.st, steps) ELSE Nothing(s, r.msg, steps)
        \* after the incremental advance to the bar `last`
        Advanced(adv, c, steps) ==
            IF EXACT_MATCH_ON_CLOSE
            THEN (IF fail = c + 2 THEN Raised(adv, Append(steps, "_recalc_tail"))
                  ELSE Done(_recalc_tail(adv, tailBars).st, Append(steps, "_recalc_tail")))
            ELSE Done(adv, steps)
        \* from the search of the last closed bar on; `c` calls were made before
        AfterSeed(s, c, steps) ==
            IF fail = c + 1 THEN Raised(s, Append(steps, "_get_last_closed_bar"))
            ELSE LET last == _get_last_closed_bar(lastBars)
                     called == Append(steps, "_get_last_closed_bar")
                 IN  IF last = NoBar THEN Done(s, called)
                     ELSE IF s.curr_ts # None
                     THEN (IF GapTooLarge((last.t - s.curr_ts) * 60)
                           THEN (IF fail = c + 2
                                 THEN Raised(s, Append(called, "_seed_from_history"))
                                 ELSE Reseeded(s, _seed_from_history(s, seedBars),
                                               Append(called, "_seed_from_history")))
                           ELSE IF last.t > s.curr_ts
                           THEN Advanced(_advance_incremental(s, last.t, last.c), c,
                                         Append(called, "_advance_incremental"))
                           ELSE Done(s, called))
                     ELSE (IF fail = c + 2
                           THEN Raised(s, Append(called, "_seed_from_history"))
                           ELSE Reseeded(s, _seed_from_history(s, seedBars),
                                         Append(called, "_seed_from_history")))
        FirstSeed(r) == IF r.ok THEN AfterSeed(r.st, 1, <<"_seed_from_history">>)
                        ELSE Nothing(st, r.msg, <<"_seed_from_history">>)
    IN  IF ~st.seeded
        THEN (IF fail = 1 THEN Raised(st, <<"_seed_from_history">>)
              ELSE FirstSeed(_seed_from_history(st, seedBars)))
        ELSE AfterSeed(st, 0, <<>>)

-----------------------------------------------------------------------------
(* Order utilities of signal_trader.py and timed_signal_trader.py (the two *)
(* files define them identically).                                         *)

FloorDiv(n, d) == n \div d

\* Python's round(n / d) for d > 0: the nearest integer, a tie going to the even one
PyRound(n, d) ==
    LET q == n \div d
        r == n % d
    IN  IF 2 * r < d THEN q
        ELSE IF 2 * r > d THEN q + 1
        ELSE IF q % 2 = 0 THEN q ELSE q + 1

\* round(x, 10) keeps ten decimals; a multiple of 10^-6 has at most six
Round10(x) == x

_round_to_tick(price, tick) == Round10(PyRound(price, tick) * tick)

DEFAULT_TICK == Unit \div 4
TickSize(sym) == DEFAULT_TICK
ORDER_SIZE(sym) == 1
TP_POINTS(sym) == IF sym = "MNQ" THEN 60 * Unit ELSE 8 * Unit
SL_POINTS(sym) == IF sym = "MNQ" THEN 30 * Unit ELSE 4 * Unit
MAX_WAIT_SEC == 30
\* CLOSE_RETRY_COUNT (15 when the environment does not set it)
RETRY_COUNT == 2

BUY == 0
SELL == 1
LIMIT == 1
MARKET == 2
STOP == 4

\* A search_trades response: it raises, or returns the trades of the account since
\* start_iso, oldest first.  orderId names the order a trade executed: "parent" is the
\* market order placed just before the poll, "earlier" an order placed before it (the
\* look-back starts two minutes before the poll).
Trade(contract, price) ==
    [contractId |-> contract, price |-> price, orderId |-> "parent"]
EarlierTrade(contract, price) ==
    [contractId |-> contract, price |-> price, orderId |-> "earlier"]
Resp(trades) == [err |-> FALSE, trades |-> trades]
RespErr == [err |-> TRUE, trades |-> <<>>]

\* the price of the last trade of the contract whose price parses, or None
RECURSIVE ScanTrades(_, _, _)
ScanTrades(trades, contract_id, i) ==
    IF i = 0 THEN None
    ELSE IF trades[i].contractId = contract_id /\ trades[i].price # None
    THEN trades[i].price
    ELSE ScanTrades(trades, contract_id, i - 1)

\* _poll_fill_price.  `script` are the responses of the successive search_trades
\* calls, the last one repeating.  The result is [raised, fill, n]: n calls were made.
RECURSIVE PollFrom(_, _, _, _)
PollFrom(script, contract_id, max_wait_sec, waited) ==
    IF waited >= max_wait_sec THEN [raised |-> FALSE, fill |-> None, n |-> waited]
    ELSE LET resp == script[Min(waited + 1, Len(script))]
         IN  IF resp.err THEN [raised |-> TRUE, fill |-> None, n |-> waited + 1]
             ELSE LET hit == ScanTrades(resp.trades, contract_id, Len(resp.trades))
                  IN  IF hit # None
                      THEN [raised |-> FALSE, fill |-> hit, n |-> waited + 1]
                      ELSE PollFrom(script, contract_id, max_wait_sec, waited + 1)

PollOnce(script, contract_id, max_wait_sec) ==
    PollFrom(script, contract_id, Min(1, max_wait_sec), 0)

_poll_fill_price(script, contract_id, max_wait_sec) ==
    PollFrom(script, contract_id, max_wait_sec, 0)

\* One call to the order API, as the broker sees it.
PlaceCall(type, side, size, price, linked, ok, id) ==
    [op |-> "place_order", type |-> type, side |-> side, size |-> size, price |-> price,
     linked_order_id |-> linked, ok |-> ok, orderId |-> IF ok THEN id ELSE None, n |-> 1]
PollCall(res) ==
    [op |-> "search_trades", type |-> None, side |-> None, size |-> None,
     price |-> res.fill, linked_order_id |-> None, ok |-> ~res.raised, orderId |-> None,
     n |-> res.n]

NoDetails ==
    [parent_order_id |-> None, fill_price |-> None, tp_order_id |-> None,
     sl_order_id |-> None, tp_price |-> None, sl_price |-> None]

ExitLegsSameSide(side, fill, tp_points, sl_points, tick_size) ==
    IF side = BUY
    THEN [tp_price |-> _round_to_tick(fill + tp_points, tick_size),
          sl_price |-> _round_to_tick(fill - sl_points, tick_size), exit_side |-> BUY]
    ELSE [tp_price |-> _round_to_tick(fill - tp_points, tick_size),
          sl_price |-> _round_to_tick(fill + sl_points, tick_size), exit_side |-> SELL]

ExitLegsSwapped(side, fill, tp_points, sl_points, tick_size) ==
    IF side = BUY
    THEN [tp_price |-> _round_to_tick(fill - tp_points, tick_size),
          sl_price |-> _round_to_tick(fill + sl_points, tick_size), exit_side |-> SELL]
    ELSE [tp_price |-> _round_to_tick(fill + tp_points, tick_size),
          sl_price |-> _round_to_tick(fill - sl_points, tick_size), exit_side |-> BUY]

\* the TP and SL prices and the side of the two exit legs
ExitLegs(side, fill, tp_points, sl_points, tick_size) ==
    IF side = BUY
    THEN [tp_price |-> _round_to_tick(fill + tp_points, tick_size),
          sl_price |-> _round_to_tick(fill - sl_points, tick_size), exit_side |-> SELL]
    ELSE [tp_price |-> _round_to_tick(fill - tp_points, tick_size),
          sl_price |-> _round_to_tick(fill + sl_points, tick_size), exit_side |-> BUY]

NeverNoFill(fill) == FALSE

\* `if not fill`: None, and 0.0 as well
NoFillSeen(fill) == fill = None \/ fill = 0

\* _place_market_and_brackets.  next_id is the id the broker gives the next order it
\* accepts; of the broker's answers `a`, a.okP, a.okTP and a.okSL tell whether the
\* placement of each leg succeeds, and a.script is what search_trades answers.  The result is [calls, out, raised, prints]: the calls
\* made to the broker, the dict returned (when raised is FALSE) and the lines printed.
_place_market_and_brackets(contract_id, side, qty, tp_points, sl_points, tick_size, next_id, a) ==
    LET okP  == a.okP
        okTP == a.okTP
        okSL == a.okSL
        parent == PlaceCall(MARKET, side, qty, None, None, okP, next_id)
    IN  IF ~okP THEN [calls |-> <<parent>>, out |-> NoDetails, raised |-> TRUE,
                      prints |-> <<>>]
        ELSE
        LET res  == _poll_fill_price(a.script, contract_id, MAX_WAIT_SEC)
            poll == PollCall(res)
            out1 == [NoDetails EXCEPT !.parent_order_id = next_id, !.fill_price = res.fill]
        IN  IF res.raised
            THEN [calls |-> <<parent, poll>>, out |-> out1, raised |-> TRUE,
                  prints |-> <<"ORDER parent">>]
            ELSE IF NoFillSeen(res.fill)
            THEN [calls |-> <<parent, poll>>, out |-> out1, raised |-> FALSE,
                  prints |-> <<"ORDER parent", "WARN no fill">>]
            ELSE
            LET legs == ExitLegs(side, res.fill, tp_points, sl_points, tick_size)
                tp   == PlaceCall(LIMIT, legs.exit_side, qty, legs.tp_price, next_id,
                                  okTP, next_id + 1)
                sl   == PlaceCall(STOP, legs.exit_side, qty, legs.sl_price, next_id,
                                  okSL, next_id + 2)
                out2 == [out1 EXCEPT !.tp_price = legs.tp_price, !.sl_price = legs.sl_price]
            IN  IF ~okTP
                THEN [calls |-> <<parent, poll, tp>>, out |-> out2, raised |-> TRUE,
                      prints |-> <<"ORDER parent">>]
                ELSE IF ~okSL
                THEN [calls |-> <<parent, poll, tp, sl>>,
                      out |-> [out2 EXCEPT !.tp_order_id = next_id + 1], raised |-> TRUE,
                      prints |-> <<"ORDER parent", "ORDER TP">>]
                ELSE [calls |-> <<parent, poll, tp, sl>>,
                      out |-> [out2 EXCEPT !.tp_order_id = next_id + 1,
                                           !.sl_order_id = next_id + 2],
                      raised |-> FALSE,
                      prints |-> <<"ORDER parent", "ORDER TP", "ORDER SL">>]


-----------------------------------------------------------------------------
(* What the broker answers during one bracket submission *)

FillA == 100 * Unit
FillB == 100 * Unit + 130000
OtherContract == "CON.F.US.OTHER"

\* the price at which the broker fills a market order of the contract
FillOf(contract_id) == IF contract_id = ContractId("MNQ") THEN FillB ELSE FillA

\* search_trades never shows a trade of the contract
NoFill == <<Resp(<<>>)>>
\* the trade of the contract shows at the second search, among a trade of another
\* contract and one whose price does not parse
LateFill(contract_id) ==
    <<Resp(<<Trade(OtherContract, FillB)>>),
      Resp(<<Trade(contract_id, FillOf(contract_id)), Trade(OtherContract, FillA),
             Trade(contract_id, None)>>)>>
SearchFails == <<RespErr>>

\* [okP, script, okTP, okSL]: whether the placement of the parent, of the take-profit
\* and of the stop-loss succeeds, and what search_trades answers in between
Answer(okP, script, okTP, okSL) ==
    [okP |-> okP, script |-> script, okTP |-> okTP, okSL |-> okSL]
BrokerAnswers(contract_id) ==
    { Answer(FALSE, NoFill, TRUE, TRUE),
      Answer(TRUE, NoFill, TRUE, TRUE),
      Answer(TRUE, SearchFails, TRUE, TRUE),
      Answer(TRUE, LateFill(contract_id), FALSE, TRUE),
      Answer(TRUE, LateFill(contract_id), TRUE, FALSE),
      Answer(TRUE, LateFill(contract_id), TRUE, TRUE) }

MaxRuns == 2
MaxSubmissions == 2
Clock0 == BaseBars + 3

\* the calls that place a parent market order
Parents(cs) == {i \in DOMAIN cs : cs[i].op = "place_order" /\ cs[i].type = MARKET}
\* the bracket submissions made so far
Submissions(cs) == Cardinality(Parents(cs))

\* the broker numbers the orders it accepts 1, 2, 3, ...
NextOrderId(cs) ==
    1 + Cardinality({i \in DOMAIN cs : cs[i].op = "place_order" /\ cs[i].ok})

\* the calls of one submission, each marked with the run, symbol and bar it was made for
Tagged(cs, r, sym, as_of) ==
    [i \in DOMAIN cs |->
        [run |-> r, symbol |-> sym, as_of |-> as_of, op |-> cs[i].op, type |-> cs[i].type,
         side |-> cs[i].side, size |-> cs[i].size, price |-> cs[i].price,
         linked_order_id |-> cs[i].linked_order_id, ok |-> cs[i].ok,
         orderId |-> cs[i].orderId, n |-> cs[i].n]]

\* a printed line, and the lines of one submission, marked likewise
Line(text, r, sym, as_of) == [line |-> text, run |-> r, symbol |-> sym, as_of |-> as_of]
TaggedLines(ps, r, sym, as_of) == [i \in DOMAIN ps |-> Line(ps[i], r, sym, as_of)]

\* base_log with its "event", and the details of _place_market_and_brackets in it
LogEvent(event, r, snap, details) ==
    [event |-> event, run |-> r, symbol |-> snap.symbol, as_of |-> snap.as_of,
     signal |-> snap.signal, parent_order_id |-> details.parent_order_id,
     fill_price |-> details.fill_price, tp_price |-> details.tp_price,
     sl_price |-> details.sl_price, tp_order_id |-> details.tp_order_id,
     sl_order_id |-> details.sl_order_id]

Side(signal) == IF signal = "LONG" THEN BUY ELSE SELL

Submission(sym, snap, cs, a) ==
    _place_market_and_brackets(snap.contract_id, Side(snap.signal), ORDER_SIZE(sym),
                               TP_POINTS(sym), SL_POINTS(sym), TickSize(sym),
                               NextOrderId(cs), a)

FiresOnEveryCycle(sym, snap) ==
    /\ snap.has
    /\ snap.signal \in {"LONG", "SHORT"}

\* a snapshot the loops act on: it carries a signal and its bar was not acted on yet
Fires(sym, snap) ==
    /\ snap.has
    /\ snap.signal \in {"LONG", "SHORT"}
    /\ last_sent_by_symbol[sym] # snap.as_of

SendsAlways(dry_run) == TRUE

\* `if dry_run: print(...) else: try: _place_market_and_brackets(...)`
SendsOrders(dry_run) == ~dry_run

MarkSentUnlessFailed(m, sym, as_of, raised) ==
    IF raised THEN m ELSE [m EXCEPT ![sym] = as_of]

\* last_sent_by_symbol[sym] = snap.as_of, after the try/except: `raised` tells whether
\* the submission raised, and the assignment does not look at it
MarkSent(m, sym, as_of, raised) == [m EXCEPT ![sym] = as_of]

-----------------------------------------------------------------------------
(* signal_trader.py: main, one iteration of `for sym, mon in mons.items()` *)

SignalTraderStep ==
    /\ prog = "signal_trader"
    /\ \E fail \in 0..3 :
        \E r \in {get_snapshot(Symbols[pos], state[Symbols[pos]], tail[Symbols[pos]], fail)} :
        LET sym == Symbols[pos]
        IN  /\ state' = [state EXCEPT ![sym] = r.st]
            /\ IF r.raised
               THEN /\ pos' = 1
                    /\ UNCHANGED <<last_sent_by_symbol, calls, console>>
               ELSE /\ pos' = (pos % Len(Symbols)) + 1
                    /\ IF ~Fires(sym, r.snap)
                       THEN UNCHANGED <<last_sent_by_symbol, calls, console>>
                       ELSE IF ~SendsOrders(DRY_RUN)
                       THEN /\ console' = Append(console,
                                              Line("DRY_RUN", run, sym, r.snap.as_of))
                            /\ last_sent_by_symbol' =
                                  MarkSent(last_sent_by_symbol, sym, r.snap.as_of, FALSE)
                            /\ UNCHANGED calls
                       ELSE /\ Submissions(calls) < MaxSubmissions
                            /\ \E a \in BrokerAnswers(r.snap.contract_id) :
                               LET d == Submission(sym, r.snap, calls, a)
                               IN  /\ calls' = calls \o Tagged(d.calls, run, sym,
                                                               r.snap.as_of)
                                   /\ console' = console
                                        \o TaggedLines(d.prints, run, sym, r.snap.as_of)
                                        \o (IF d.raised
                                            THEN <<Line("ERROR placing bracket", run, sym,
                                                        r.snap.as_of)>>
                                            ELSE <<>>)
                                   /\ last_sent_by_symbol' =
                                         MarkSent(last_sent_by_symbol, sym, r.snap.as_of,
                                                  d.raised)
    /\ UNCHANGED <<envVars, clock, tail, target, tries, run, trades_log, notified, pc,
                   alertVars, roundVars, monVars>>

-----------------------------------------------------------------------------
(* timed_signal_trader.py: main *)

\* _write_log appends the event unless the write fails (the failure is only printed)
_write_log(log, entry, okLog) == IF okLog THEN Append(log, entry) ELSE log

\* _notify_trade hands the event to the channels unless it is a dry run without
\* NOTIFY_ON_DRY_RUN
_notify_trade(sent, event, dry_run, on_dry) ==
    IF dry_run /\ ~on_dry THEN sent ELSE Append(sent, event)

\* expected_close_utc and expected_open_utc of the cycle that waits for the boundary t
expected_close_utc(t) == t * BAR_MINUTES
expected_open_utc(t) == expected_close_utc(t) - BAR_MINUTES

ArrivedAny(got, mode, t) == TRUE

\* `ok = (got >= expected_open_utc) if BAR_TS_MODE == "open" else (got >= expected_close_utc)`
Arrived(got, mode, t) ==
    IF mode = "open" THEN got >= expected_open_utc(t) ELSE got >= expected_close_utc(t)

MoreTriesAlways(polled) == TRUE

\* `for _ in range(RETRY_COUNT)`: after `polled` polls of a symbol another one follows
MoreTries(polled) == polled < RETRY_COUNT

\* now -> _next_quarter_close -> _sleep_until: the loop waits for the next boundary
TimedSleep ==
    /\ prog = "timed_signal_trader"
    /\ target = None
    /\ target' = clock + 1
    /\ UNCHANGED <<envVars, clock, tail, state, last_sent_by_symbol, pos, tries, run,
                   calls, trades_log, notified, console, pc, alertVars, roundVars, monVars>>

\* one pass of `for _ in range(RETRY_COUNT)` for the symbol at hand, and, when the
\* expected bar is there or the retries are used up, the rest of the symbol's iteration
TimedPoll ==
    /\ prog = "timed_signal_trader"
    /\ target # None
    /\ clock >= target
    /\ \E fail \in 0..3 :
        \E r \in {get_snapshot(Symbols[pos], state[Symbols[pos]], tail[Symbols[pos]], fail)} :
        LET sym == Symbols[pos]
            ok  == r.snap.has /\ Arrived(FromIso(r.snap.as_of), BAR_TS_MODE, target)
            NextSymbol == /\ tries' = 0
                          /\ IF pos < Len(Symbols)
                             THEN pos' = pos + 1 /\ target' = target
                             ELSE pos' = 1 /\ target' = None
            LogWarn(okLog) == IF okLog THEN <<>>
                              ELSE <<Line("LOG WARN", run, sym, r.snap.as_of)>>
        IN  /\ state' = [state EXCEPT ![sym] = r.st]
            /\ IF r.raised
               THEN /\ pos' = 1 /\ tries' = 0 /\ target' = None
                    /\ UNCHANGED <<last_sent_by_symbol, calls, trades_log, notified,
                                   console>>
               ELSE IF ~ok
               THEN /\ IF MoreTries(tries + 1)
                       THEN tries' = tries + 1 /\ UNCHANGED <<pos, target>>
                       ELSE NextSymbol
                    /\ UNCHANGED <<last_sent_by_symbol, calls, trades_log, notified,
                                   console>>
               ELSE IF ~Fires(sym, r.snap)
               THEN /\ NextSymbol
                    /\ UNCHANGED <<last_sent_by_symbol, calls, trades_log, notified,
                                   console>>
               ELSE /\ NextSymbol
                    /\ \E okLog \in BOOLEAN :
                       IF ~SendsOrders(DRY_RUN)
                       THEN /\ trades_log' = _write_log(trades_log,
                                 LogEvent("DRY_RUN_SIGNAL", run, r.snap, NoDetails), okLog)
                            /\ notified' = _notify_trade(notified,
                                 LogEvent("", run, r.snap, NoDetails), TRUE, NOTIFY_ON_DRY)
                            /\ console' = Append(console,
                                              Line("DRY_RUN", run, sym, r.snap.as_of))
                                          \o LogWarn(okLog)
                            /\ last_sent_by_symbol' =
                                  MarkSent(last_sent_by_symbol, sym, r.snap.as_of, FALSE)
                            /\ UNCHANGED calls
                       ELSE /\ Submissions(calls) < MaxSubmissions
                            /\ \E a \in BrokerAnswers(r.snap.contract_id) :
                              LET d  == Submission(sym, r.snap, calls, a)
                                  ev == IF d.raised
                                        THEN LogEvent("ORDER_ERROR", run, r.snap, NoDetails)
                                        ELSE LogEvent("ORDER_SENT", run, r.snap, d.out)
                              IN  /\ calls' = calls \o Tagged(d.calls, run, sym,
                                                              r.snap.as_of)
                                  /\ trades_log' = _write_log(trades_log, ev, okLog)
                                  /\ notified' = _notify_trade(notified, ev, FALSE,
                                                               NOTIFY_ON_DRY)
                                  /\ console' = console
                                       \o TaggedLines(d.prints, run, sym, r.snap.as_of)
                                       \o (IF d.raised
                                           THEN <<Line("ERROR placing bracket", run, sym,
                                                       r.snap.as_of)>>
                                           ELSE <<>>)
                                       \o LogWarn(okLog)
                                  /\ last_sent_by_symbol' =
                                        MarkSent(last_sent_by_symbol, sym, r.snap.as_of,
                                                 d.raised)
    /\ UNCHANGED <<envVars, clock, tail, run, pc, alertVars, roundVars, monVars>>

-----------------------------------------------------------------------------
(* app/trading/signal_trader.py: the alert loop and its seen-signal ledger *)

CLOSE_RETRY_COUNT == 2

\* the order of Python's str on the symbols and on the signal names
SymRank(sym) == IF sym = "ES" THEN 1 ELSE 2
SignalRank(signal) == IF signal = "LONG" THEN 1 ELSE IF signal = "None" THEN 2 ELSE 3

\* f"{sym}|{as_of}|{signal}"
_event_id(sym, as_of, signal) == <<sym, as_of, signal>>

\* str.__lt__ on two event ids (the as_of strings have one width)
IdLess(a, b) ==
    \/ SymRank(a[1]) < SymRank(b[1])
    \/ a[1] = b[1] /\ FromIso(a[2]) < FromIso(b[2])
    \/ a[1] = b[1] /\ a[2] = b[2] /\ SignalRank(a[3]) < SignalRank(b[3])

\* sorted(list(seen))
RECURSIVE SortedList(_)
SortedList(ids) ==
    IF ids = {} THEN <<>>
    ELSE LET m == CHOOSE x \in ids : \A y \in ids \ {x} : IdLess(x, y)
         IN  <<m>> \o SortedList(ids \ {m})

\* _load_seen: set(json.load(f)), or set() when the file cannot be read
_load_seen(file, okLoad) == IF okLoad THEN {file[i] : i \in DOMAIN file} ELSE {}

\* _save_seen: the file is rewritten with the sorted ids; a failure is only printed
_save_seen(file, ids, okSave) == IF okSave THEN SortedList(ids) ELSE file

NoInfo == [as_of |-> NoAsOf, bias |-> "", signal |-> "", above50 |-> FALSE]
Bias(snap) == IF snap.ema50 > snap.ema200 THEN "BUY" ELSE "SELL"
Info(snap) ==
    [as_of |-> snap.as_of, bias |-> Bias(snap), signal |-> snap.signal,
     above50 |-> snap.close > snap.ema50]

\* seen = _load_seen()
AlertLoad ==
    /\ prog = "alert_trader"
    /\ pc = "load"
    /\ \E okLoad \in BOOLEAN : seen' = _load_seen(seen_file, okLoad)
    /\ pc' = "init"
    /\ pos' = 1
    /\ UNCHANGED <<envVars, clock, tail, state, last_sent_by_symbol, target, tries, run,
                   calls, trades_log, notified, console, last_info, printed, seen_file,
                   roundVars, monVars>>

\* one iteration of the snapshot loop at start-up; nothing catches what get_snapshot raises
AlertInit ==
    /\ prog = "alert_trader"
    /\ pc = "init"
    /\ \E fail \in 0..3 :
        \E r \in {get_snapshot(Symbols[pos], state[Symbols[pos]], tail[Symbols[pos]], fail)} :
        LET sym == Symbols[pos]
        IN  /\ state' = [state EXCEPT ![sym] = r.st]
            /\ IF r.raised
               THEN pc' = "dead" /\ UNCHANGED <<pos, target, last_info>>
               ELSE /\ last_info' = IF r.snap.has
                                    THEN [last_info EXCEPT ![sym] = Info(r.snap)]
                                    ELSE last_info
                    /\ IF pos < Len(Symbols)
                       THEN pos' = pos + 1 /\ UNCHANGED <<pc, target>>
                       ELSE pos' = 1 /\ pc' = "wait" /\ target' = clock
    /\ UNCHANGED <<envVars, clock, tail, last_sent_by_symbol, tries, run, calls,
                   trades_log, notified, console, seen, printed, seen_file, roundVars, monVars>>

\* `while True`: the minute is one of CHECK_MINUTES and the second is 0; target is the
\* quarter of the last check
AlertWake ==
    /\ prog = "alert_trader"
    /\ pc = "wait"
    /\ clock > target
    /\ target' = clock
    /\ pc' = "check"
    /\ printed' = {}
    /\ tries' = 0
    /\ pos' = 1
    /\ UNCHANGED <<envVars, clock, tail, state, last_sent_by_symbol, run, calls,
                   trades_log, notified, console, last_info, seen, seen_file, roundVars, monVars>>

\* one iteration of `for sym, mon in monitors.items()` inside
\* `for attempt in range(CLOSE_RETRY_COUNT)`; tries is the attempt
AlertCheck ==
    /\ prog = "alert_trader"
    /\ pc = "check"
    /\ \E fail \in 0..3, okSave \in BOOLEAN :
        \E r \in {get_snapshot(Symbols[pos], state[Symbols[pos]], tail[Symbols[pos]], fail)} :
        LET sym  == Symbols[pos]
            prev == last_info[sym]
            is_new_bar == prev = NoInfo \/ prev.as_of # r.snap.as_of
            ev_id == _event_id(sym, r.snap.as_of, r.snap.signal)
            pullback ==
                IF prev = NoInfo THEN <<>>
                ELSE IF Bias(r.snap) = "BUY" /\ prev.above50 /\ ~Info(r.snap).above50
                THEN <<LogEvent("Pullback BUY", run, r.snap, NoDetails)>>
                ELSE IF Bias(r.snap) = "SELL" /\ ~prev.above50 /\ Info(r.snap).above50
                THEN <<LogEvent("Pullback SELL", run, r.snap, NoDetails)>>
                ELSE <<>>
            Advance == IF pos < Len(Symbols)
                       THEN pos' = pos + 1 /\ UNCHANGED <<pc, tries>>
                       ELSE /\ pos' = 1
                            /\ IF printed' = SymbolSet \/ tries + 1 >= CLOSE_RETRY_COUNT
                               THEN pc' = "wait" /\ tries' = 0
                               ELSE pc' = pc /\ tries' = tries + 1
        IN  IF sym \in printed
            THEN /\ UNCHANGED <<state, last_info, printed, seen, seen_file, notified>>
                 /\ Advance
            ELSE /\ state' = [state EXCEPT ![sym] = r.st]
                 /\ IF r.raised
                    THEN /\ pc' = "dead"
                         /\ UNCHANGED <<pos, tries, last_info, printed, seen, seen_file,
                                        notified>>
                    ELSE IF ~r.snap.has \/ ~is_new_bar
                    THEN /\ UNCHANGED <<last_info, printed, seen, seen_file, notified>>
                         /\ Advance
                    ELSE /\ notified' = notified \o pullback
                         /\ last_info' = [last_info EXCEPT ![sym] = Info(r.snap)]
                         /\ printed' = printed \cup {sym}
                         /\ IF ev_id \notin seen
                            THEN /\ seen' = seen \cup {ev_id}
                                 /\ seen_file' = _save_seen(seen_file, seen \cup {ev_id},
                                                            okSave)
                            ELSE UNCHANGED <<seen, seen_file>>
                         /\ Advance
    /\ UNCHANGED <<envVars, clock, tail, last_sent_by_symbol, target, run, calls,
                   trades_log, console, roundVars, monVars>>

-----------------------------------------------------------------------------
(* The environment: time passes, the bar source publishes closed bars, the *)
(* process is stopped and started again.                                   *)

LastIndex(tl) == IF tl = <<>> THEN BaseBars ELSE tl[Len(tl)].t \div BAR_MINUTES

\* the bars published since the start
NewBars == Len(tail["MNQ"]) + Len(tail["ES"]) - 2 * Len(Symbols)

Tick ==
    /\ clock < Clock0 + MaxClock
    /\ clock' = clock + 1
    /\ UNCHANGED <<envVars, tail, state, last_sent_by_symbol, pos, target, tries, run,
                   calls, trades_log, notified, console, pc, alertVars, roundVars, monVars>>

\* a bar that has closed (a quarter before the current one) and follows the last one
\* published appears, possibly after a gap; at most `limit` bars appear
Publish(limit) ==
    /\ NewBars < limit
    /\ \E sym \in SymbolSet :
       \E k \in (LastIndex(tail[sym]) + 1)..(clock - 1) :
       \E c \in Closes :
          tail' = [tail EXCEPT ![sym] = Append(@, Bar(k, c))]
    /\ UNCHANGED <<envVars, clock, state, last_sent_by_symbol, pos, target, tries, run,
                   calls, trades_log, notified, console, pc, alertVars, roundVars, monVars>>

NewBar == Publish(MaxNewBars)

\* the process ends and is started again: what it held in memory is gone, the files
\* and what the broker received stay
Restart ==
    /\ run < MaxRuns
    /\ run' = run + 1
    /\ state' = [sym \in SymbolSet |-> InitState]
    /\ last_sent_by_symbol' = [sym \in SymbolSet |-> NoAsOf]
    /\ pos' = 1
    /\ target' = None
    /\ tries' = 0
    /\ pc' = IF prog = "alert_trader" THEN "load" ELSE "loop"
    /\ last_info' = [sym \in SymbolSet |-> NoInfo]
    /\ seen' = {}
    /\ printed' = {}
    /\ UNCHANGED <<envVars, clock, tail, calls, trades_log, notified, console, seen_file,
                   roundVars, monVars>>

-----------------------------------------------------------------------------

\* no MarketMonitor method was called directly
NoCall ==
    [op |-> "", before |-> InitState, n |-> 0, ts |-> None, close |-> None,
     ok |-> FALSE, msg |-> <<>>, snap |-> NoSnapshot, steps |-> <<>>]

\* the memory of a process that has just started, and the empty files and broker
Started ==
    /\ clock = Clock0
    /\ state = [sym \in SymbolSet |-> InitState]
    /\ last_sent_by_symbol = [sym \in SymbolSet |-> NoAsOf]
    /\ pos = 1
    /\ target = None
    /\ tries = 0
    /\ run = 1
    /\ calls = <<>>
    /\ trades_log = <<>>
    /\ notified = <<>>
    /\ console = <<>>
    /\ last_info = [sym \in SymbolSet |-> NoInfo]
    /\ seen = {}
    /\ printed = {}
    /\ seen_file = <<>>
    /\ mon = NoCall
    /\ shots = <<>>

Init ==
    /\ prog \in {"signal_trader", "timed_signal_trader", "alert_trader"}
    /\ DRY_RUN \in (IF prog = "alert_trader" THEN {TRUE} ELSE BOOLEAN)
    /\ NOTIFY_ON_DRY \in (IF prog = "timed_signal_trader" /\ DRY_RUN THEN BOOLEAN
                          ELSE {FALSE})
    /\ BAR_TS_MODE \in (IF prog = "timed_signal_trader" THEN {"open", "close"}
                        ELSE {"open"})
    /\ EMA200_SMOOTH_TYPE = ""
    /\ first = 1
    /\ slope = 0
    /\ pc = IF prog = "alert_trader" THEN "load" ELSE "loop"
    /\ tail \in [SymbolSet -> {<<Bar(BaseBars + 1, Hi), Bar(BaseBars + 2, c)>> :
                                 c \in Closes}]
    /\ Started
    /\ rprice = None
    /\ rtick = None
    /\ rout = None
    /\ fin = None
    /\ fout = NoResult

Next ==
    \/ SignalTraderStep
    \/ TimedSleep
    \/ TimedPoll
    \/ AlertLoad
    \/ AlertInit
    \/ AlertWake
    \/ AlertCheck
    \/ Tick
    \/ NewBar
    \/ Restart

Spec == Init /\ [][Next]_vars

\* the timed loop alone, with a scheduler that lets the process run: a process that can
\* poll does poll
InitTimed ==
    /\ Init
    /\ prog = "timed_signal_trader"

NextTimed ==
    \/ TimedSleep
    \/ TimedPoll
    \/ Tick
    \/ NewBar
    \/ Restart

\* the guard of TimedPoll; a due poll can always be made, since among its outcomes is
\* the get_snapshot that raises and ends the cycle, so this is ENABLED <<TimedPoll>>_vars
CanPoll == prog = "timed_signal_trader" /\ target # None /\ clock >= target

\* WF_vars(TimedPoll), with ENABLED <<TimedPoll>>_vars written as CanPoll
PollFairness == []<>(~CanPoll) \/ []<><<TimedPoll>>_vars

SpecTimed == InitTimed /\ [][NextTimed]_vars /\ PollFairness

\* the alert loop alone, with a bar source that publishes bars before and after a
\* restart of the process
MaxLedgerBars == 2

LedgerNewBar == Publish(MaxLedgerBars)

InitLedger ==
    /\ Init
    /\ prog = "alert_trader"

NextLedger ==
    \/ AlertLoad
    \/ AlertInit
    \/ AlertWake
    \/ AlertCheck
    \/ Tick
    \/ LedgerNewBar
    \/ Restart

SpecLedger == InitLedger /\ [][NextLedger]_vars

-----------------------------------------------------------------------------
(* Functions of the loops on their own: each is called once, with arguments *)
(* drawn from small sets.                                                   *)

ChannelRaising(ok) == [raised |-> ~ok, sent |-> ok]

\* _notify_telegram, _notify_email: `try: <send> except Exception as e: print(...)`;
\* ok tells whether the send succeeds
Channel(ok) == [raised |-> FALSE, sent |-> ok]

\* _notify_trade with its two channels: [raised, sent], the channels that delivered
NotifyChannels(dry_run, on_dry, okTg, okMail) ==
    IF dry_run /\ ~on_dry THEN [raised |-> FALSE, sent |-> <<>>]
    ELSE LET tg == Channel(okTg)
         IN  IF tg.raised THEN [raised |-> TRUE, sent |-> <<>>]
             ELSE LET mail == Channel(okMail)
                  IN  [raised |-> mail.raised,
                       sent |-> (IF tg.sent THEN <<"telegram">> ELSE <<>>)
                                \o (IF mail.sent THEN <<"email">> ELSE <<>>)]

\* a Snapshot with a signal, of the bar before the current one
SignalSnapshot(sym, signal) ==
    [has |-> TRUE, symbol |-> sym, contract_id |-> ContractId(sym),
     as_of |-> IsoZ((BaseBars + 2) * BAR_MINUTES), close |-> BaseClose,
     ema50 |-> BaseClose, ema200 |-> BaseClose, color |-> "gray", signal |-> signal,
     bars |-> BaseBars]

\* main, from `if DRY_RUN:` to `last_sent_by_symbol[sym] = snap.as_of`, for a signal that
\* passed the duplicate check.  The result is [calls, log, sent, marked, reached]: the
\* broker calls, the events written, the channels that delivered each notification,
\* whether the bar was marked as sent, and whether an exception reached the loop's
\* `except Exception`
Attempted(sym, snap, dry_run, on_dry, a, okLog, okTg, okMail) ==
    LET Ended(cs, log, n) ==
            [done |-> TRUE, calls |-> cs, log |-> log, sent |-> n.sent,
             marked |-> ~n.raised, reached |-> n.raised]
        note(dry) == NotifyChannels(dry, on_dry, okTg, okMail)
    IN  IF dry_run
        THEN Ended(<<>>, _write_log(<<>>, LogEvent("DRY_RUN_SIGNAL", 1, snap, NoDetails),
                                    okLog), note(TRUE))
        ELSE LET d == Submission(sym, snap, <<>>, a)
                 Failed(log) ==
                     Ended(d.calls, _write_log(log, LogEvent("ORDER_ERROR", 1, snap,
                                                             NoDetails), okLog),
                           note(FALSE))
             IN  IF d.raised THEN Failed(<<>>)
                 ELSE LET log == _write_log(<<>>, LogEvent("ORDER_SENT", 1, snap, d.out),
                                            okLog)
                          n   == note(FALSE)
                      IN  IF n.raised THEN Failed(log) ELSE Ended(d.calls, log, n)

AttemptArgs ==
    [fn : {"attempt"}, sym : SymbolSet, signal : {"LONG", "SHORT"},
     answer : 1..6, okLog : BOOLEAN, okTg : BOOLEAN, okMail : BOOLEAN]

\* the broker's answers in an order
RECURSIVE AnswerList(_)
AnswerList(S) ==
    IF S = {} THEN <<>>
    ELSE LET x == CHOOSE y \in S : TRUE IN <<x>> \o AnswerList(S \ {x})

AttemptOf(i, okLog, okTg, okMail) ==
    LET snap == SignalSnapshot(i.sym, i.signal)
    IN  Attempted(i.sym, snap, DRY_RUN, NOTIFY_ON_DRY,
                  AnswerList(BrokerAnswers(snap.contract_id))[i.answer],
                  okLog, okTg, okMail)

AttemptCall ==
    /\ prog = "function"
    /\ fin.fn = "attempt"
    /\ ~fout.done
    /\ fout' = AttemptOf(fin, fin.okLog, fin.okTg, fin.okMail)
    /\ UNCHANGED <<envVars, clock, tail, state, last_sent_by_symbol, pos, target, tries,
                   run, calls, trades_log, notified, console, pc, alertVars, rprice, rtick,
                   rout, fin, monVars>>

\* what search_trades can answer to one call: it raises, or shows no trade, a trade of
\* another contract, trades of the contract (oldest first), some with a price that
\* float() does not take, some of an order placed before the parent
Responses(contract_id) ==
    { RespErr,
      Resp(<<>>),
      Resp(<<Trade(OtherContract, FillB)>>),
      Resp(<<Trade(contract_id, None)>>),
      Resp(<<Trade(contract_id, FillA), Trade(contract_id, FillB),
             Trade(OtherContract, FillA)>>),
      Resp(<<Trade(contract_id, FillOf(contract_id)), Trade(OtherContract, FillA),
             Trade(contract_id, None)>>),
      Resp(<<EarlierTrade(contract_id, FillB)>>),
      Resp(<<EarlierTrade(contract_id, FillB), Trade(contract_id, FillA)>>) }

MaxScript == 2
Scripts(contract_id) ==
    UNION {[1..n -> Responses(contract_id)] : n \in 1..MaxScript}

MaxWaits == {1, 2, 3, MAX_WAIT_SEC}

PollArgs ==
    UNION {[fn : {"poll"}, contract_id : {ContractId(sym)},
            script : Scripts(ContractId(sym)), max_wait_sec : MaxWaits] :
           sym \in SymbolSet}

FillPollCall ==
    /\ prog = "function"
    /\ fin.fn = "poll"
    /\ ~fout.done
    /\ \E res \in {_poll_fill_price(fin.script, fin.contract_id, fin.max_wait_sec)} :
          fout' = [done |-> TRUE, raised |-> res.raised, fill |-> res.fill, n |-> res.n]
    /\ UNCHANGED <<envVars, clock, tail, state, last_sent_by_symbol, pos, target, tries,
                   run, calls, trades_log, notified, console, pc, alertVars, rprice, rtick,
                   rout, fin, monVars>>

FunArgs == AttemptArgs \cup PollArgs

InitFun ==
    /\ prog = "function"
    /\ DRY_RUN \in BOOLEAN
    /\ NOTIFY_ON_DRY \in BOOLEAN
    /\ BAR_TS_MODE = "open"
    /\ EMA200_SMOOTH_TYPE = ""
    /\ first = 1
    /\ slope = 0
    /\ pc = "loop"
    /\ tail = [sym \in SymbolSet |-> <<>>]
    /\ Started
    /\ rprice = None
    /\ rtick = None
    /\ rout = None
    /\ fin \in FunArgs
    /\ fout = NoResult

NextFun ==
    \/ AttemptCall
    \/ FillPollCall

SpecFun == InitFun /\ [][NextFun]_vars

-----------------------------------------------------------------------------
(* _round_to_tick on its own: the prices from 100.000 to 100.500 in steps  *)
(* of 0.005 and five tick sizes.                                           *)

MaxPriceSteps == 100
PriceStep == Unit \div 200
RoundPrices == {100 * Unit + PriceStep * i : i \in 0..MaxPriceSteps}
RoundTicks == {Unit \div 100, Unit \div 10, Unit \div 4, Unit \div 2, Unit}

RoundCall ==
    /\ prog = "round"
    /\ rout = None
    /\ rout' = _round_to_tick(rprice, rtick)
    /\ UNCHANGED <<envVars, clock, tail, state, last_sent_by_symbol, pos, target, tries,
                   run, calls, trades_log, notified, console, pc, alertVars, rprice, rtick,
                   fin, fout, monVars>>

InitRound ==
    /\ prog = "round"
    /\ DRY_RUN = TRUE
    /\ NOTIFY_ON_DRY = FALSE
    /\ BAR_TS_MODE = "open"
    /\ EMA200_SMOOTH_TYPE = ""
    /\ first = 1
    /\ slope = 0
    /\ pc = "loop"
    /\ tail = [sym \in SymbolSet |-> <<>>]
    /\ Started
    /\ rprice \in RoundPrices
    /\ rtick \in RoundTicks
    /\ rout = None
    /\ fin = None
    /\ fout = NoResult

NextRound == RoundCall

SpecRound == InitRound /\ [][NextRound]_vars

-----------------------------------------------------------------------------
(* The MarketMonitor of one symbol, its methods called one at a time in    *)
(* any order, each on what the BarSource holds at the time of the call.    *)

MaxMonBars == 2
MaxGapBars == 2
MonSym == "ES"

\* what the BarSource holds after the base history when the monitor is created: too
\* few bars, just enough of them, or enough for the smoothed EMA200 as well
ShortTail(c) == <<Bar(BaseBars + 1, Hi), Bar(BaseBars + 2, c)>>
LongTail(c) ==
    <<Bar(BaseBars + 1, Hi), Bar(BaseBars + 2, Lo), Bar(BaseBars + 3, Hi),
      Bar(BaseBars + 4, Lo), Bar(BaseBars + 5, c)>>

Call(op, before, n, ts, close, ok, msg, snap, steps) ==
    [op |-> op, before |-> before, n |-> n, ts |-> ts, close |-> close,
     ok |-> ok, msg |-> msg, snap |-> snap, steps |-> steps]

\* the bars _seed_from_history and _recalc_tail are given by retrieve_bars
SeedBars == retrieve_bars(tail[MonSym], Max(WARMUP_BARS, REQUIRED_BARS + 200))
TailBars == retrieve_bars(tail[MonSym], TAIL_BARS)

MonSeed ==
    /\ prog = "monitor"
    /\ \E r \in {_seed_from_history(state[MonSym], SeedBars)} :
        /\ state' = [state EXCEPT ![MonSym] = r.st]
        /\ mon' = Call("_seed_from_history", state[MonSym], Len(SeedBars), None, None,
                       r.ok, r.msg, NoSnapshot, <<>>)
    /\ UNCHANGED <<envVars, clock, tail, last_sent_by_symbol, pos, target, tries, run,
                   calls, trades_log, notified, console, pc, alertVars, roundVars, shots>>

MonRecalc ==
    /\ prog = "monitor"
    /\ \E r \in {_recalc_tail(state[MonSym], TailBars)} :
        /\ state' = [state EXCEPT ![MonSym] = r.st]
        /\ mon' = Call("_recalc_tail", state[MonSym], Len(TailBars), None, None,
                       r.ok, r.msg, NoSnapshot, <<>>)
    /\ UNCHANGED <<envVars, clock, tail, last_sent_by_symbol, pos, target, tries, run,
                   calls, trades_log, notified, console, pc, alertVars, roundVars, shots>>

\* _advance_incremental with one of the last bars published, new or not
MonAdvance ==
    /\ prog = "monitor"
    /\ \E i \in DOMAIN tail[MonSym] :
        /\ i > Len(tail[MonSym]) - 3
        /\ \E bar \in {tail[MonSym][i]} :
            /\ state' = [state EXCEPT
                            ![MonSym] = _advance_incremental(state[MonSym], bar.t, bar.c)]
            /\ mon' = Call("_advance_incremental", state[MonSym], 0, bar.t, bar.c,
                           TRUE, <<>>, NoSnapshot, <<>>)
    /\ UNCHANGED <<envVars, clock, tail, last_sent_by_symbol, pos, target, tries, run,
                   calls, trades_log, notified, console, pc, alertVars, roundVars, shots>>

MonSnapshot ==
    /\ prog = "monitor"
    /\ \E fail \in 0..3 :
        \E r \in {get_snapshot(MonSym, state[MonSym], tail[MonSym], fail)} :
        /\ state' = [state EXCEPT ![MonSym] = r.st]
        /\ mon' = Call("get_snapshot", state[MonSym], 0, None, None,
                       ~r.raised, r.msg, r.snap, r.steps)
    /\ UNCHANGED <<envVars, clock, tail, last_sent_by_symbol, pos, target, tries, run,
                   calls, trades_log, notified, console, pc, alertVars, roundVars, shots>>

\* the BarSource publishes the next closed bar of MonSym, possibly after a gap (the
\* bars of the other symbol stay as they were when the monitor was created)
MonNewBar ==
    /\ prog = "monitor"
    /\ Len(tail[MonSym]) < Len(tail["MNQ"]) + MaxMonBars
    /\ \E k \in (LastIndex(tail[MonSym]) + 1)..(LastIndex(tail[MonSym]) + MaxGapBars) :
       \E c \in Closes :
          /\ tail' = [tail EXCEPT ![MonSym] = Append(@, Bar(k, c))]
          /\ clock' = Max(clock, k + 1)
    /\ mon' = NoCall
    /\ UNCHANGED <<envVars, state, last_sent_by_symbol, pos, target, tries, run,
                   calls, trades_log, notified, console, pc, alertVars, roundVars, shots>>

\* the look-back window of retrieve_bars moves past the oldest bar the BarSource held
MonForget ==
    /\ prog = "monitor"
    /\ first < MaxFirst
    /\ first' = first + 1
    /\ mon' = NoCall
    /\ UNCHANGED <<prog, DRY_RUN, NOTIFY_ON_DRY, BAR_TS_MODE, EMA200_SMOOTH_TYPE, slope, clock, tail,
                   state, last_sent_by_symbol, pos, target, tries, run, calls, trades_log,
                   notified, console, pc, alertVars, roundVars, shots>>

InitMon ==
    /\ prog = "monitor"
    /\ DRY_RUN = TRUE
    /\ NOTIFY_ON_DRY = FALSE
    /\ BAR_TS_MODE = "open"
    /\ EMA200_SMOOTH_TYPE \in {"", "sma"}
    /\ first \in 1..(MaxFirst - 1)
    /\ slope = 0
    /\ pc = "loop"
    /\ \E c \in Closes :
         \/ tail = [sym \in SymbolSet |-> ShortTail(c)]
         \/ first = 1 /\ tail = [sym \in SymbolSet |-> LongTail(c)]
    /\ clock = LastIndex(tail[MonSym]) + 1
    /\ state = [sym \in SymbolSet |-> InitState]
    /\ last_sent_by_symbol = [sym \in SymbolSet |-> NoAsOf]
    /\ pos = 1
    /\ target = None
    /\ tries = 0
    /\ run = 1
    /\ calls = <<>>
    /\ trades_log = <<>>
    /\ notified = <<>>
    /\ console = <<>>
    /\ last_info = [sym \in SymbolSet |-> NoInfo]
    /\ seen = {}
    /\ printed = {}
    /\ seen_file = <<>>
    /\ mon = NoCall
    /\ shots = <<>>
    /\ rprice = None
    /\ rtick = None
    /\ rout = None
    /\ fin = None
    /\ fout = NoResult

NextMon ==
    \/ MonSeed
    \/ MonRecalc
    \/ MonAdvance
    \/ MonSnapshot
    \/ MonNewBar
    \/ MonForget

SpecMon == InitMon /\ [][NextMon]_vars

-----------------------------------------------------------------------------
(* A loop driving the MarketMonitor of one symbol with get_snapshot, as the *)
(* order loops do, over a history of ScenarioBars bars whose closes rise by *)
(* `slope` a bar (or are flat), followed by bars that close below, at,      *)
(* between or above the EMAs.  The loop may miss bars.                      *)

MaxSigBars == 4
ScenarioBars == 210
PullBack == 2 * Unit

\* the bars after the base history that complete the rising (or flat) history
RisingTail ==
    [j \in 1..(ScenarioBars - BaseBars) |-> Bar(BaseBars + j, BaseClose + j * slope)]

\* the base EMA of the given period at the last bar the BarSource holds
EmaNow(period) ==
    LET bars == AllBars(tail[MonSym])
    IN  EwmRaw([i \in 1..Len(bars) |-> bars[i].c], period, Len(bars))

\* closes of the next bar: 2 points below the fast EMA, at it, halfway between the
\* fast and the slow EMA, and 2 points above the fast EMA
SigCloses(e50, e200) == {e50 - PullBack, e50, (e50 + e200) \div 2, e50 + PullBack}

Shot(bar, st, snap) == [bar |-> bar, st |-> st, snap |-> snap]

\* one get_snapshot of the loop for the last closed bar, at most one per bar
SigSnapshot ==
    /\ prog = "signals"
    /\ \E bar \in {_get_last_closed_bar(retrieve_bars(tail[MonSym], 2))} :
        /\ IF shots = <<>> THEN TRUE ELSE shots[Len(shots)].bar # bar.t
        /\ \E r \in {get_snapshot(MonSym, state[MonSym], tail[MonSym], 0)} :
            /\ state' = [state EXCEPT ![MonSym] = r.st]
            /\ mon' = Call("get_snapshot", state[MonSym], 0, None, None,
                           ~r.raised, r.msg, r.snap, r.steps)
            /\ shots' = Append(shots, Shot(bar.t, r.st, r.snap))
    /\ UNCHANGED <<envVars, clock, tail, last_sent_by_symbol, pos, target, tries, run,
                   calls, trades_log, notified, console, pc, alertVars, roundVars>>

\* the next bar closes
SigNewBar ==
    /\ prog = "signals"
    /\ Len(tail[MonSym]) < ScenarioBars - BaseBars + MaxSigBars
    /\ \E c \in SigCloses(EmaNow(PERIOD_FAST), EmaNow(PERIOD_SLOW)) :
          tail' = [tail EXCEPT ![MonSym] = Append(@, Bar(LastIndex(@) + 1, c))]
    /\ clock' = clock + 1
    /\ mon' = NoCall
    /\ UNCHANGED <<envVars, state, last_sent_by_symbol, pos, target, tries, run,
                   calls, trades_log, notified, console, pc, alertVars, roundVars, shots>>

InitSig ==
    /\ prog = "signals"
    /\ DRY_RUN = TRUE
    /\ NOTIFY_ON_DRY = FALSE
    /\ BAR_TS_MODE = "open"
    /\ EMA200_SMOOTH_TYPE \in {"", "sma"}
    /\ first = 1
    /\ slope \in Slopes
    /\ pc = "loop"
    /\ tail = [sym \in SymbolSet |-> RisingTail]
    /\ clock = LastIndex(tail[MonSym]) + 1
    /\ state = [sym \in SymbolSet |-> InitState]
    /\ last_sent_by_symbol = [sym \in SymbolSet |-> NoAsOf]
    /\ pos = 1
    /\ target = None
    /\ tries = 0
    /\ run = 1
    /\ calls = <<>>
    /\ trades_log = <<>>
    /\ notified = <<>>
    /\ console = <<>>
    /\ last_info = [sym \in SymbolSet |-> NoInfo]
    /\ seen = {}
    /\ printed = {}
    /\ seen_file = <<>>
    /\ mon = NoCall
    /\ shots = <<>>
    /\ rprice = None
    /\ rtick = None
    /\ rout = None
    /\ fin = None
    /\ fout = NoResult

NextSig ==
    \/ SigSnapshot
    \/ SigNewBar

SpecSig == InitSig /\ [][NextSig]_vars

-----------------------------------------------------------------------------
(* Properties.  calls, console and trades_log keep everything the process  *)
(* sent, printed and logged, so a property of a whole run is a predicate   *)
(* on them.                                                                *)

SameKey(a, b) == a.run = b.run /\ a.symbol = b.symbol /\ a.as_of = b.as_of
SameBar(a, b) == a.symbol = b.symbol /\ a.as_of = b.as_of

\* the search_trades polls, those that returned a price, those that timed out
Polls == {j \in DOMAIN calls : calls[j].op = "search_trades"}
Fills == {j \in Polls : calls[j].ok /\ calls[j].price > 0}
Timeouts == {j \in Polls : calls[j].ok /\ calls[j].price = None}
\* the place_order calls of the exit legs
ExitLegCalls ==
    {i \in DOMAIN calls : calls[i].op = "place_order" /\ calls[i].type \in {LIMIT, STOP}}

\* the snapshot the monitor of sym gave at its last successful get_snapshot
Current(sym) == MakeSnapshot(sym, state[sym])

\* the first symbol was processed again, in the running process, after the entry i of
\* history h (for its bar) and the later entry j (for the second symbol), and its
\* snapshot is still the one of entry i, with its signal
CycledAgain(h, i, j) ==
    /\ i < j
    /\ h[i].run = run /\ h[j].run = run
    /\ h[i].symbol = Symbols[1] /\ h[j].symbol = Symbols[2]
    /\ prog = "signal_trader"
    /\ pos = 2
    /\ Current(Symbols[1]).has
    /\ Current(Symbols[1]).as_of = h[i].as_of
    /\ Current(Symbols[1]).signal \in {"LONG", "SHORT"}

C2_OncePerBarAcrossRestarts ==
    \A i, j \in Parents(calls) : SameBar(calls[i], calls[j]) => i = j

\* a second process run placed a parent order for a bar the first run had acted on
C2_ResubmittedAfterRestart ==
    \E i, j \in Parents(calls) :
        i < j /\ SameBar(calls[i], calls[j]) /\ calls[i].run < calls[j].run

\* C3: as stated, a step in which a call of the bracket submission fails (place_order
\* or search_trades raises) leaves last_sent_by_symbol as it was.
C3_FailureLeavesKeyUnset ==
    [][(\E i \in (Len(calls) + 1)..Len(calls') : ~calls'[i].ok)
           => last_sent_by_symbol' = last_sent_by_symbol]_vars

\* a call of the last submission failed and the bar's as_of is recorded for the symbol
C3_KeySetAfterFailure ==
    /\ calls # <<>>
    /\ ~calls[Len(calls)].ok
    /\ calls[Len(calls)].run = run
    /\ last_sent_by_symbol[calls[Len(calls)].symbol] = calls[Len(calls)].as_of

\* C4: an exit leg (TP or SL) is placed only after the poll of its parent returned a
\* price; a poll that timed out follows its parent directly, ends the submission, and no
\* exit leg is ever linked to that parent, in that attempt or later.
C4_ExitLegsOnlyAfterFill ==
    /\ \A i \in ExitLegCalls :
          \E j \in Fills :
              /\ j > 1 /\ j < i /\ i - j <= 2
              /\ SameKey(calls[j], calls[i])
              /\ (j - 1) \in Parents(calls)
              /\ calls[j - 1].orderId = calls[i].linked_order_id
    /\ \A j \in Timeouts :
          /\ j > 1
          /\ (j - 1) \in Parents(calls)
          /\ calls[j - 1].ok
          /\ SameKey(calls[j - 1], calls[j])
          /\ (j = Len(calls) \/ (j + 1) \in Parents(calls))
          /\ \A i \in ExitLegCalls : calls[i].linked_order_id # calls[j - 1].orderId

\* a poll timed out and a later cycle of the same run made another submission for the
\* same symbol
C4_TimeoutThenLaterSubmission ==
    \E j \in Timeouts : \E k \in Parents(calls) :
        k > j /\ calls[k].run = calls[j].run /\ calls[k].symbol = calls[j].symbol

\* C5: when the poll returns a price, the orders go out as parent (MARKET, type 2),
\* take-profit (LIMIT, type 1), stop-loss (STOP, type 4); each exit leg is on the side
\* opposite to the parent, has its size and carries its orderId as linked_order_id.
C5_BracketOrder ==
    /\ \A j \in Fills :
          /\ j > 1 /\ j < Len(calls)
          /\ (j - 1) \in Parents(calls)
          /\ calls[j - 1].ok
          /\ LET p  == calls[j - 1]
                 tp == calls[j + 1]
                 IsExit(c, type) ==
                     /\ c.op = "place_order" /\ c.type = type
                     /\ c.side = 1 - p.side /\ c.size = p.size
                     /\ c.linked_order_id = p.orderId
                     /\ SameKey(c, p)
             IN  /\ IsExit(tp, LIMIT)
                 /\ tp.ok => j + 2 <= Len(calls) /\ IsExit(calls[j + 2], STOP)
    /\ \A i \in ExitLegCalls :
          calls[i].type = STOP =>
              /\ calls[i - 1].type = LIMIT /\ calls[i - 1].ok
              /\ calls[i - 1].linked_order_id = calls[i].linked_order_id

\* a parent was filled and both exit legs were accepted
C5_FullBracketPlaced ==
    \E j \in Fills :
        /\ j + 2 <= Len(calls)
        /\ calls[j + 1].ok /\ calls[j + 2].ok /\ calls[j + 2].type = STOP

\* C6: the exit prices come from the fill and the parent's side: for a buy
\* tp = round_to_tick(fill + tp_points) and sl = round_to_tick(fill - sl_points), for a
\* sell tp = round_to_tick(fill - tp_points) and sl = round_to_tick(fill + sl_points);
\* a sell of ES (tp_points 8, sl_points 4, tick 0.25) filled at 100.0 gets tp = 92.0
\* and sl = 104.0.
C6_ExitPrices ==
    \A j \in Fills :
        LET p    == calls[j - 1]
            fill == calls[j].price
            sym  == p.symbol
            up   == IF p.side = BUY THEN 1 ELSE -1
            tp   == _round_to_tick(fill + up * TP_POINTS(sym), TickSize(sym))
            sl   == _round_to_tick(fill - up * SL_POINTS(sym), TickSize(sym))
        IN  /\ p.side \in {BUY, SELL}
            /\ j + 1 <= Len(calls) => calls[j + 1].price = tp
            /\ (j + 2 <= Len(calls) /\ calls[j + 2].type = STOP) => calls[j + 2].price = sl
            /\ (sym = "ES" /\ p.side = SELL /\ fill = 100 * Unit /\ j + 1 <= Len(calls))
                  => calls[j + 1].price = 92 * Unit
            /\ (sym = "ES" /\ p.side = SELL /\ fill = 100 * Unit /\ j + 2 <= Len(calls)
                  /\ calls[j + 2].type = STOP) => calls[j + 2].price = 104 * Unit

\* a sell of ES filled at 100.0 has both exit legs placed, and a buy of MNQ filled at
\* 100.13 has them too
C6_ShortAndLongPriced ==
    /\ \E j \in Fills :
          /\ calls[j - 1].symbol = "ES" /\ calls[j - 1].side = SELL
          /\ calls[j].price = 100 * Unit
          /\ j + 2 <= Len(calls) /\ calls[j + 2].type = STOP
    /\ \E j \in Fills :
          /\ calls[j - 1].symbol = "MNQ" /\ calls[j - 1].side = BUY
          /\ calls[j].price = FillB
          /\ j + 2 <= Len(calls) /\ calls[j + 2].type = STOP

\* C7: _round_to_tick(price, tick) is a multiple of tick, at most tick/2 away from
\* price, a tie going to the even multiple; round_to_tick(100.13, 0.25) = 100.25 and
\* round_to_tick(100.12, 0.25) = 100.0.
C7_NearestTick ==
    rout # None =>
        /\ rtick > 0
        /\ rout % rtick = 0
        /\ 2 * (rout - rprice) <= rtick
        /\ 2 * (rprice - rout) <= rtick
        /\ 2 * (rprice % rtick) = rtick => (rout \div rtick) % 2 = 0
        /\ (rprice = 100130000 /\ rtick = 250000) => rout = 100250000
        /\ (rprice = 100120000 /\ rtick = 250000) => rout = 100000000

\* round_to_tick(100.13, 0.25) was computed
C7_Rounded10013 == rout # None /\ rprice = 100130000 /\ rtick = 250000

C9_ExitLegFailureLoggedAndNotified ==
    \A i \in ExitLegCalls :
        ~calls[i].ok =>
            /\ \E n \in DOMAIN trades_log :
                  trades_log[n].event = "ORDER_ERROR" /\ SameKey(trades_log[n], calls[i])
            /\ \E n \in DOMAIN notified :
                  notified[n].event = "ORDER_ERROR" /\ SameKey(notified[n], calls[i])
            /\ \A k \in DOMAIN calls : SameKey(calls[k], calls[i]) => k <= i

\* signal_trader.py: an exit leg failed and nothing was logged or notified
C9_ExitLegFailureOnlyPrinted ==
    /\ prog = "signal_trader"
    /\ \E i \in ExitLegCalls : ~calls[i].ok
    /\ trades_log = <<>>
    /\ notified = <<>>

\* the lines "DRY_RUN" printed for a bar
DryLines == {n \in DOMAIN console : console[n].line = "DRY_RUN"}

\* C10: while DRY_RUN is true no call reaches the broker (no place_order, no
\* search_trades); a firing signal is printed, and by the timed loop logged as
\* DRY_RUN_SIGNAL; the bar is marked as handled, so that within the process run it is
\* printed once.
C10_DryRunSendsNothing ==
    DRY_RUN =>
        /\ calls = <<>>
        /\ \A n \in DOMAIN trades_log : trades_log[n].event = "DRY_RUN_SIGNAL"
        /\ \A n \in DOMAIN trades_log :
              \E m \in DryLines : SameKey(console[m], trades_log[n])
        /\ \A n, m \in DryLines : SameKey(console[n], console[m]) => n = m
        /\ \A n \in DryLines :
              (console[n].run = run
                 /\ \A m \in DryLines : (m > n /\ console[m].run = run)
                                           => console[m].symbol # console[n].symbol)
                  => last_sent_by_symbol[console[n].symbol] = console[n].as_of

\* in a dry run the first symbol's signal was printed, and a later cycle of the same
\* run saw that bar again with its signal
C10_DrySignalSeenAgain ==
    DRY_RUN /\ \E n, m \in DryLines : CycledAgain(console, n, m)

-----------------------------------------------------------------------------
(* The MarketMonitor methods (SpecMon) *)

Mon == state[MonSym]
MonLast == _get_last_closed_bar(retrieve_bars(tail[MonSym], 2))

Called(steps, a) == \E i \in DOMAIN steps : steps[i] = a

\* get_snapshot was called on a seeded state whose curr is `gap` minutes older than the
\* last closed bar
SnapshotAtGap(gap) ==
    /\ mon.op = "get_snapshot"
    /\ mon.before.seeded
    /\ MonLast.t - mon.before.curr_ts = gap

\* C11: _advance_incremental called on a seeded state with a bar whose timestamp is not
\* later than curr's leaves every field of the state as it was.
C11_AdvanceIsNoOpOnOldBar ==
    (mon.op = "_advance_incremental" /\ mon.before.seeded /\ mon.ts <= mon.before.curr_ts)
        => Mon = mon.before

\* _advance_incremental was called on a seeded state with a bar older than curr
C11_OldBarGiven ==
    mon.op = "_advance_incremental" /\ mon.before.seeded /\ mon.ts < mon.before.curr_ts

\* C12: when the last closed bar is more than 20 minutes later than curr, get_snapshot
\* re-seeds (the state becomes the seed of the history, or stays when the seed fails)
\* and does not call _advance_incremental; when it is later by at most 20 minutes,
\* get_snapshot calls _advance_incremental and does not re-seed.  (Nothing is called
\* when already the search of the last closed bar raises.)
C12_GapPolicy ==
    \A gap \in 1..(MaxMonBars * MaxGapBars * BAR_MINUTES + 5 * BAR_MINUTES) :
        SnapshotAtGap(gap) /\ mon.steps # <<"_get_last_closed_bar">> =>
            IF gap * 60 > GAP_SECONDS
            THEN /\ Called(mon.steps, "_seed_from_history")
                 /\ ~Called(mon.steps, "_advance_incremental")
                 /\ mon.ok => Mon = _seed_from_history(mon.before, SeedBars).st
            ELSE /\ Called(mon.steps, "_advance_incremental")
                 /\ ~Called(mon.steps, "_seed_from_history")

\* get_snapshot met a bar 30 minutes later than curr and re-seeded the state
C12_ReseededAfterGap ==
    SnapshotAtGap(2 * BAR_MINUTES) /\ mon.ok /\ Mon # mon.before /\ Mon.seeded

\* C13: _seed_from_history given fewer than REQUIRED_BARS bars fails with the message
\* that tells how many there are and how many are needed and leaves the state as it
\* was; get_snapshot on an unseeded monitor then returns no Snapshot, and every
\* get_snapshot on an unseeded monitor starts with the seed.
C13_InsufficientHistory ==
    /\ (mon.op = "_seed_from_history" /\ mon.n < REQUIRED_BARS) =>
            /\ ~mon.ok
            /\ mon.msg = <<"Datos insuficientes", mon.n, REQUIRED_BARS>>
            /\ Mon = mon.before
    /\ (mon.op = "get_snapshot" /\ ~mon.before.seeded) =>
            /\ mon.steps[1] = "_seed_from_history"
            /\ (mon.ok /\ Len(SeedBars) < REQUIRED_BARS) =>
                    mon.snap = NoSnapshot /\ Mon = mon.before /\ Len(mon.steps) = 1

\* a seeded state was given too few bars for a seed and kept its values
C13_SeededStateKept ==
    mon.op = "_seed_from_history" /\ mon.n < REQUIRED_BARS /\ mon.before.seeded

\* C14: once the state is seeded (by a seed or a recalculation, and after any advances)
\* the smoothing buffer holds at most EMA200_SMOOTH_LENGTH values, and the displayed
\* slow EMA of curr is the mean of the buffer when smoothing is on and the base slow
\* EMA when it is off.
C14_SmoothingBuffer ==
    Mon.seeded =>
        /\ Len(Mon.ema200_buf) <= EMA200_SMOOTH_LENGTH
        /\ Mon.curr_e200 = IF SmoothOn THEN Mean(Mon.ema200_buf) ELSE Mon.curr_e200_base

\* with smoothing on, an advance pushed a value into a full buffer
C14_AdvancedFullBuffer ==
    /\ SmoothOn
    /\ mon.op = "_advance_incremental"
    /\ Len(mon.before.ema200_buf) = EMA200_SMOOTH_LENGTH
    /\ Mon.bars = mon.before.bars + 1
    /\ Mon.curr_e200 # NaN

\* C15: in a seeded state the timestamp of curr is later than the timestamp of prev.
C15_CurrAfterPrev == Mon.seeded => Mon.curr_ts > Mon.prev_ts

\* a get_snapshot that advanced a state which a gap had made it re-seed before
C15_AdvancedAfterReseed ==
    /\ mon.op = "get_snapshot"
    /\ Called(mon.steps, "_advance_incremental")
    /\ mon.ok
    /\ (mon.before.curr_ts - mon.before.prev_ts) > BAR_MINUTES

\* C16: while the state is not seeded every EMA value of prev and curr is None, also
\* after an advance, and get_snapshot returns no Snapshot.
C16_NoneUntilSeeded ==
    ~Mon.seeded =>
        /\ {Mon.prev_e50, Mon.prev_e200_base, Mon.prev_e200,
            Mon.curr_e50, Mon.curr_e200_base, Mon.curr_e200} = {None}
        /\ MakeSnapshot(MonSym, Mon) = NoSnapshot
        /\ mon.op = "get_snapshot" => mon.snap = NoSnapshot

\* _advance_incremental was called with a bar on a state that was never seeded
C16_AdvancedUnseeded ==
    mon.op = "_advance_incremental" /\ ~mon.before.seeded /\ ~Mon.seeded

Front(s) == SubSeq(s, 1, Len(s) - 1)

\* the state was the seed of all bars but the last one, and _advance_incremental was
\* then called with the last bar
SeededThenAdvanced ==
    /\ mon.op = "_advance_incremental"
    /\ mon.ts = MonLast.t
    /\ mon.close = MonLast.c
    /\ mon.before.seeded
    /\ mon.before.bars = Len(SeedBars) - 1
    /\ \E sd \in {_seed_from_history(InitState, Front(SeedBars))} :
           sd.ok /\ sd.st = mon.before

\* C17: a seed followed by the advance to the next bar gives the state that
\* _recalc_tail gives on the extended sequence: the same prev and curr points, base and
\* displayed EMAs, bar count and smoothing buffer.
C17_PixelMatch ==
    SeededThenAdvanced => Mon = _recalc_tail(mon.before, TailBars).st

\* with smoothing off, a seeded state was advanced to the next bar: every field is the
\* one _recalc_tail gives except the smoothing buffer, which still holds the base slow
\* EMA of the bar before
C17_BufferLeftBehind ==
    /\ SeededThenAdvanced
    /\ ~SmoothOn
    /\ \E rc \in {_recalc_tail(mon.before, TailBars).st} :
           /\ [Mon EXCEPT !.ema200_buf = rc.ema200_buf] = rc
           /\ Mon.ema200_buf = mon.before.ema200_buf
           /\ Mon.ema200_buf = <<Mon.prev_e200_base>>
           /\ rc.ema200_buf = <<Mon.curr_e200_base>>
           /\ Mon.prev_e200_base # Mon.curr_e200_base

\* C18: on a bar sequence on which _seed_from_history succeeds, _recalc_tail gives the
\* same state, whichever of the two is called.
C18_RecalcIsSeed ==
    /\ (mon.op = "_seed_from_history" /\ mon.ok) =>
            \E rc \in {_recalc_tail(mon.before, SeedBars)} : rc.ok /\ rc.st = Mon
    /\ mon.op = "_recalc_tail" =>
            \E sd \in {_seed_from_history(mon.before, TailBars)} : sd.ok => sd.st = Mon

\* a seed succeeded on a state that held other values before
C18_ReseedSucceeded ==
    mon.op = "_seed_from_history" /\ mon.ok /\ mon.before.seeded /\ Mon # mon.before

\* C19 as stated: _recalc_tail on a window whose final fast EMA or final displayed slow
\* EMA is NaN fails and leaves the state as it was, and no NaN is stored in the state or
\* returned in a Snapshot.
C19_RecalcRejectsNaN ==
    /\ (/\ mon.op = "_recalc_tail"
        /\ mon.n >= REQUIRED_BARS
        /\ \E f \in {Frame(TailBars)} : f.curr.e200 = NaN \/ f.curr.e50 = NaN)
            => ~mon.ok /\ Mon = mon.before
    /\ NaN \notin {Mon.prev_e50, Mon.prev_e200_base, Mon.prev_e200,
                    Mon.curr_e50, Mon.curr_e200_base, Mon.curr_e200}
    /\ (mon.op = "get_snapshot" /\ mon.snap # NoSnapshot) =>
            mon.snap.ema50 # NaN /\ mon.snap.ema200 # NaN

\* a get_snapshot that advanced and recalculated returned a Snapshot whose ema200 is NaN
C19_SnapshotWithNaN ==
    /\ mon.op = "get_snapshot"
    /\ Called(mon.steps, "_recalc_tail")
    /\ mon.snap # NoSnapshot
    /\ mon.snap.ema200 = NaN

Abs(x) == IF x < 0 THEN -x ELSE x

\* e2 is e + alpha * (close - e) with alpha = 2 / (period + 1), up to the last digit
OneStep(e, close, period, e2) ==
    Abs((period + 1) * (e2 - e) - 2 * (close - e)) < period + 1

\* _advance_incremental was called on a seeded state with a bar later than curr
AdvancedToNewerBar ==
    mon.op = "_advance_incremental" /\ mon.before.seeded /\ mon.ts > mon.before.curr_ts

\* C21: _advance_incremental on a seeded state with a later bar makes prev the old curr
\* in every field, computes the new base EMAs from the new close and the old base
\* values by e + alpha * (close - e), appends the new base slow value to the smoothing
\* buffer (dropping the oldest beyond EMA200_SMOOTH_LENGTH values) and adds one to the
\* bar count.
C21_AdvanceRollsAndSteps ==
    AdvancedToNewerBar =>
        /\ Mon.prev_ts = mon.before.curr_ts
        /\ Mon.prev_close = mon.before.curr_close
        /\ Mon.prev_e50 = mon.before.curr_e50
        /\ Mon.prev_e200_base = mon.before.curr_e200_base
        /\ Mon.prev_e200 = mon.before.curr_e200
        /\ Mon.curr_ts = mon.ts
        /\ Mon.curr_close = mon.close
        /\ OneStep(mon.before.curr_e50, mon.close, PERIOD_FAST, Mon.curr_e50)
        /\ OneStep(mon.before.curr_e200_base, mon.close, PERIOD_SLOW, Mon.curr_e200_base)
        /\ Mon.ema200_buf = LastN(Append(mon.before.ema200_buf, Mon.curr_e200_base),
                                  EMA200_SMOOTH_LENGTH)
        /\ Mon.bars = mon.before.bars + 1

\* with smoothing off, an advance to a later bar rolled curr to prev, stepped both base
\* EMAs and counted the bar, and left the smoothing buffer without the new value
C21_AdvancedWithoutPush ==
    /\ AdvancedToNewerBar
    /\ ~SmoothOn
    /\ Mon.prev_e50 = mon.before.curr_e50
    /\ OneStep(mon.before.curr_e50, mon.close, PERIOD_FAST, Mon.curr_e50)
    /\ OneStep(mon.before.curr_e200_base, mon.close, PERIOD_SLOW, Mon.curr_e200_base)
    /\ Mon.bars = mon.before.bars + 1
    /\ Mon.ema200_buf = mon.before.ema200_buf
    /\ Mon.curr_e200_base \notin {Mon.ema200_buf[j] : j \in DOMAIN Mon.ema200_buf}

-----------------------------------------------------------------------------
(* The signal of the Snapshots (SpecSig).  Bar k of the history is its k-th *)
(* bar (the BarSource holds the whole base history).  R is the history as   *)
(* the data frame of a recalculation has it: R[k].c, R[k].f and R[k].s are  *)
(* the close, the fast base EMA and the slow base EMA of bar k, for the     *)
(* bars from which both EMAs are defined.                                   *)

\* the function f on S with every value computed once
RECURSIVE Table(_, _)
Table(f, S) ==
    IF S = {} THEN <<>>
    ELSE LET x == CHOOSE y \in S : TRUE
         IN  (x :> f[x]) @@ Table(f, S \ {x})

\* ema_ind over the base history, at its bars from which both EMAs are defined
SeriesOf(s, period) ==
    Table([k \in PERIOD_SLOW..BaseBars |->
              EwmFold(BaseClosesOf(s), period, 2, k, BaseClosesOf(s)[1])],
          PERIOD_SLOW..BaseBars)
BaseSeries ==
    Table([s \in Slopes |-> [fast |-> SeriesOf(s, PERIOD_FAST),
                             slow |-> SeriesOf(s, PERIOD_SLOW)]], Slopes)

\* fast and slow are the base EMAs at the bars after the base history
RowsOf(bars, fast, slow) ==
    Table([k \in PERIOD_SLOW..Len(bars) |->
              IF k <= BaseBars
              THEN [c |-> bars[k].c, f |-> BaseSeries[slope].fast[k],
                    s |-> BaseSeries[slope].slow[k]]
              ELSE [c |-> bars[k].c, f |-> fast[k - BaseBars], s |-> slow[k - BaseBars]]],
          PERIOD_SLOW..Len(bars))

TailEma(bars, period) ==
    EwmTail([i \in DOMAIN bars |-> bars[i].c], period, Len(bars), Len(bars) - BaseBars)

Rows ==
    CHOOSE R \in {RowsOf(bars, TailEma(bars, PERIOD_FAST), TailEma(bars, PERIOD_SLOW)) :
                     bars \in {AllBars(tail[MonSym])}} : TRUE

Below(R, k) == R[k].c < R[k].f
Above(R, k) == R[k].c > R[k].f
TrendLong(R, k) == R[k].f > R[k].s
TrendShort(R, k) == R[k].f < R[k].s

\* the bars from which both base EMAs are defined, before bar j
Earlier(j) == PERIOD_SLOW..(j - 1)

BarOf(shot) == shot.bar \div BAR_MINUTES

\* the trend is LONG from bar i to bar j, bar i closes below the fast EMA, and bar j is
\* the first bar after it that closes above the fast EMA
PulledBackThenAbove(R, i, j) ==
    /\ i \in Earlier(j)
    /\ \A k \in i..j : TrendLong(R, k)
    /\ Below(R, i)
    /\ \A k \in (i + 1)..(j - 1) : ~Above(R, k)
    /\ Above(R, j)

PulledBackThenBelow(R, i, j) ==
    /\ i \in Earlier(j)
    /\ \A k \in i..j : TrendShort(R, k)
    /\ Above(R, i)
    /\ \A k \in (i + 1)..(j - 1) : ~Below(R, k)
    /\ Below(R, j)

\* C22 as stated: with trend LONG, the first bar that closes above the fast EMA after
\* a bar that closed below it has the signal LONG, and the bar after it, closing above
\* the fast EMA again, has no signal; the same with SHORT, above and below exchanged.
C22_ArmTriggerCycle ==
    \E R \in {Rows} :
    \A n \in DOMAIN shots : shots[n].snap.has =>
        \E j \in {BarOf(shots[n])} :
            /\ (\E i \in Earlier(j) : PulledBackThenAbove(R, i, j))
                    => shots[n].snap.signal = "LONG"
            /\ (\E i \in Earlier(j) : PulledBackThenBelow(R, i, j))
                    => shots[n].snap.signal = "SHORT"
            /\ (Above(R, j) /\ \E i \in Earlier(j - 1) : PulledBackThenAbove(R, i, j - 1))
                    => shots[n].snap.signal = "None"
            /\ (Below(R, j) /\ \E i \in Earlier(j - 1) : PulledBackThenBelow(R, i, j - 1))
                    => shots[n].snap.signal = "None"

\* C22: with trend LONG on both bars, a bar that closes above the fast EMA right after
\* a bar that closed below it has the signal LONG, and the bar after it, closing above
\* the fast EMA again, has no signal; the same with SHORT, above and below exchanged.
\* (A bar that closes at the fast EMA in between is neither below nor above, and the
\* bar after it has no signal.)
C22_CrossOfAdjacentBars ==
    \E R \in {Rows} :
    \A n \in DOMAIN shots : shots[n].snap.has =>
        \E j \in {BarOf(shots[n])} :
            /\ PulledBackThenAbove(R, j - 1, j) => shots[n].snap.signal = "LONG"
            /\ PulledBackThenBelow(R, j - 1, j) => shots[n].snap.signal = "SHORT"
            /\ (Above(R, j) /\ PulledBackThenAbove(R, j - 2, j - 1))
                    => shots[n].snap.signal = "None"
            /\ (Below(R, j) /\ PulledBackThenBelow(R, j - 2, j - 1))
                    => shots[n].snap.signal = "None"
            /\ (~Below(R, j - 1) /\ ~Above(R, j - 1)) => shots[n].snap.signal = "None"

\* the loop saw LONG on the bar that closed above the fast EMA after a pullback, and
\* no signal on the next bar, which closed above the fast EMA again
C22_FiredOnceThenQuiet ==
    \E R \in {Rows} :
    \E n \in DOMAIN shots : n > 1 /\
        /\ shots[n].snap.has
        /\ shots[n - 1].snap.has
        /\ BarOf(shots[n - 1]) = BarOf(shots[n]) - 1
        /\ PulledBackThenAbove(R, BarOf(shots[n]) - 2, BarOf(shots[n]) - 1)
        /\ Above(R, BarOf(shots[n]))
        /\ shots[n - 1].snap.signal = "LONG"
        /\ shots[n].snap.signal = "None"

\* bar i armed the direction that bar j signals: it closed on the opposite side of the
\* fast EMA, and the trend had the direction from bar i to bar j
ArmedLong(R, i, j) == Below(R, i) /\ \A k \in i..j : TrendLong(R, k)
ArmedShort(R, i, j) == Above(R, i) /\ \A k \in i..j : TrendShort(R, k)

\* C23: a Snapshot has a signal only if an earlier bar armed its direction: that bar
\* closed on the opposite side of the fast EMA while the trend had the direction, and
\* the trend has not changed since; a bar on which the trend has just flipped has no
\* signal.
C23_SignalOnlyWhenArmed ==
    \E R \in {Rows} :
    \A n \in DOMAIN shots : shots[n].snap.has =>
        \E j \in {BarOf(shots[n])} :
            /\ shots[n].snap.signal = "LONG" => \E i \in Earlier(j) : ArmedLong(R, i, j)
            /\ shots[n].snap.signal = "SHORT" => \E i \in Earlier(j) : ArmedShort(R, i, j)

\* a Snapshot has the signal SHORT on the bar on which the trend flipped from LONG to
\* SHORT, the bar before having closed above the fast EMA
C23_SignalOnTrendFlip ==
    \E R \in {Rows} :
    \E n \in DOMAIN shots :
        /\ shots[n].snap.has
        /\ shots[n].snap.signal = "SHORT"
        /\ TrendLong(R, BarOf(shots[n]) - 1)
        /\ TrendShort(R, BarOf(shots[n]))
        /\ Above(R, BarOf(shots[n]) - 1)
        /\ Below(R, BarOf(shots[n]))

\* the conditions of the two signals on a state
LongDue(st) ==
    /\ st.curr_e50 - st.curr_e200_base > EPS
    /\ st.prev_close < st.prev_e50 - EPS
    /\ st.curr_close > st.curr_e50 + EPS
ShortDue(st) ==
    /\ st.curr_e200_base - st.curr_e50 > EPS
    /\ st.prev_close > st.prev_e50 + EPS
    /\ st.curr_close < st.curr_e50 - EPS

\* C24: the signal of a Snapshot is LONG exactly when the fast EMA of curr exceeds its
\* base slow EMA by more than EPS, prev closed below its fast EMA minus EPS and curr
\* closed above its fast EMA plus EPS; SHORT exactly in the mirrored case; None in
\* every other case; the two cases never hold together.
C24_SignalRule ==
    \A n \in DOMAIN shots : shots[n].snap.has =>
        /\ shots[n].snap.signal = "LONG" <=> LongDue(shots[n].st)
        /\ shots[n].snap.signal = "SHORT" <=> ShortDue(shots[n].st)
        /\ shots[n].snap.signal = "None" <=> ~LongDue(shots[n].st) /\ ~ShortDue(shots[n].st)
        /\ ~(LongDue(shots[n].st) /\ ShortDue(shots[n].st))
        /\ shots[n].snap.signal \in {"LONG", "SHORT", "None"}

\* with smoothing on, the loop saw a SHORT, a LONG and a Snapshot without signal whose
\* prev closed exactly at the fast EMA
C24_AllThreeSeen ==
    /\ SmoothOn
    /\ \E n \in DOMAIN shots : shots[n].snap.has /\ shots[n].snap.signal = "LONG"
    /\ \E n \in DOMAIN shots : shots[n].snap.has /\ shots[n].snap.signal = "SHORT"
    /\ \E n \in DOMAIN shots :
          /\ shots[n].snap.has
          /\ shots[n].snap.signal = "None"
          /\ shots[n].st.prev_close = shots[n].st.prev_e50
          /\ shots[n].st.curr_close # shots[n].st.curr_e50
          /\ shots[n].st.curr_e50 # shots[n].st.curr_e200_base

\* the close lies between the two EMAs, strictly or with the EMAs themselves
StrictlyInside(close, e50, e200) == Min(e50, e200) < close /\ close < Max(e50, e200)
Inside(close, e50, e200) == Min(e50, e200) <= close /\ close <= Max(e50, e200)

Missing(st) ==
    None \in {st.prev_close, st.prev_e50, st.prev_e200_base,
              st.curr_close, st.curr_e50, st.curr_e200_base}

RuleSignal(st) == IF LongDue(st) THEN "LONG" ELSE IF ShortDue(st) THEN "SHORT" ELSE "None"

\* C25 as stated: the color of a Snapshot is gray if a value is missing, else green if
\* prev closed strictly between its fast and slow EMA, else yellow if curr closed
\* strictly between its fast and slow EMA, else red; the signal is the one of the
\* rule whatever the color.
C25_ColorStrictlyBetween ==
    \A n \in DOMAIN shots : shots[n].snap.has =>
        \E st \in {shots[n].st} :
            /\ shots[n].snap.color =
                  IF Missing(st) THEN "gray"
                  ELSE IF StrictlyInside(st.prev_close, st.prev_e50, st.prev_e200_base)
                  THEN "green"
                  ELSE IF StrictlyInside(st.curr_close, st.curr_e50, st.curr_e200_base)
                  THEN "yellow"
                  ELSE "red"
            /\ shots[n].snap.signal = RuleSignal(st)

\* C25: the color of a Snapshot is gray if a value is missing, else green if prev
\* closed between its fast and base slow EMA or at one of them, else yellow if curr
\* closed between its fast and base slow EMA or at one of them, else red; the signal
\* is the one of the rule whatever the color.
C25_ColorBetweenOrAt ==
    \A n \in DOMAIN shots : shots[n].snap.has =>
        \E st \in {shots[n].st} :
            /\ shots[n].snap.color =
                  IF Missing(st) THEN "gray"
                  ELSE IF Inside(st.prev_close, st.prev_e50, st.prev_e200_base)
                  THEN "green"
                  ELSE IF Inside(st.curr_close, st.curr_e50, st.curr_e200_base)
                  THEN "yellow"
                  ELSE "red"
            /\ shots[n].snap.signal = RuleSignal(st)

\* the loop saw the three colors, yellow on a bar that closed exactly at the fast EMA,
\* and a red Snapshot with a signal as well as one without
C25_ThreeColorsSeen ==
    /\ \E n \in DOMAIN shots :
          /\ shots[n].snap.has
          /\ shots[n].snap.color = "green"
          /\ StrictlyInside(shots[n].st.prev_close, shots[n].st.prev_e50,
                            shots[n].st.prev_e200_base)
    /\ \E n \in DOMAIN shots :
          /\ shots[n].snap.has
          /\ shots[n].snap.color = "yellow"
          /\ shots[n].st.curr_close = shots[n].st.curr_e50
    /\ \E n, m \in DOMAIN shots :
          /\ shots[n].snap.has /\ shots[m].snap.has
          /\ shots[n].snap.color = "red" /\ shots[m].snap.color = "red"
          /\ shots[n].snap.signal # "None" /\ shots[m].snap.signal = "None"

\* the loop seeded on the ScenarioBars rising bars and took a Snapshot after each of
\* the next n - 1 bars
ScenarioShots(n) ==
    /\ slope > 0
    /\ Len(shots) >= n
    /\ \A m \in 1..n : shots[m].snap.has /\ BarOf(shots[m]) = ScenarioBars + m - 1

\* the bar after the seed closed 2 points below the fast EMA
PulledBack == shots[2].st.curr_close = shots[1].st.curr_e50 - PullBack

\* the bar after the pullback closed above the fast EMA
CameBack == shots[3].st.curr_close > shots[3].st.curr_e50

\* C26: after the seed on 210 bars of rising closes the fast EMA is above the slow EMA;
\* the Snapshot of a next bar that closes 2 points below the fast EMA has no signal;
\* the Snapshot of the bar after it, which closes above the fast EMA, has the signal
\* LONG and the timestamp of that bar, and no Snapshot before it has LONG.
C26_PullbackScenario ==
    /\ ScenarioShots(1) =>
            /\ shots[1].st.bars = ScenarioBars
            /\ shots[1].st.curr_e50 > shots[1].st.curr_e200_base
            /\ shots[1].snap.signal # "LONG"
    /\ (ScenarioShots(2) /\ PulledBack) => shots[2].snap.signal = "None"
    /\ (ScenarioShots(3) /\ PulledBack /\ CameBack) =>
            /\ shots[3].snap.signal = "LONG"
            /\ shots[3].snap.as_of = IsoZ((ScenarioBars + 2) * BAR_MINUTES)

\* on closes rising by 0.0005 points a bar, the Snapshot of the pullback bar has the
\* signal SHORT and the Snapshot of the bar that came back has LONG
C26_ShortOnPullback ==
    /\ ScenarioShots(3) /\ PulledBack /\ CameBack
    /\ shots[2].snap.signal = "SHORT"
    /\ shots[3].snap.signal = "LONG"

-----------------------------------------------------------------------------
(* The timed loop's wait for the expected bar (SpecTimed) *)

Timed == prog = "timed_signal_trader"

\* the timestamp the cycle that waits for the boundary `target` expects of the bar
Wanted ==
    IF BAR_TS_MODE = "open" THEN expected_open_utc(target) ELSE expected_close_utc(target)

\* a step of the running process, not a restart of it
LoopStep == Timed /\ run' = run /\ <<state, tries, pos, target>>' # <<state, tries, pos, target>>

\* the last poll of a symbol ends and the monitor still has no bar as new as the expected one
GaveUp ==
    /\ Timed /\ run' = run
    /\ target # None
    /\ tries = RETRY_COUNT - 1
    /\ tries' = 0
    /\ LET ts == state'[Symbols[pos]].curr_ts
       IN  ts = None \/ ts < Wanted

\* the loop goes to the next symbol of this cycle, or to the next cycle
MovesOn == pos' # pos \/ target' = None

\* C27: in the timed loop nothing is polled before the boundary the cycle waits for has
\* passed, a symbol is polled at most RETRY_COUNT times in a cycle, a symbol whose
\* expected bar did not appear in these polls is left without an order, a log event or
\* a notification and the loop moves on, and every cycle that has begun to poll ends
C27_BoundedPolling ==
    /\ [](Timed => tries \in 0..(RETRY_COUNT - 1))
    /\ [][(LoopStep /\ target # None) => clock >= target]_vars
    /\ [][GaveUp => /\ calls' = calls
                     /\ trades_log' = trades_log
                     /\ notified' = notified
                     /\ last_sent_by_symbol' = last_sent_by_symbol
                     /\ MovesOn]_vars
    /\ (CanPoll ~> (target = None))

\* the first symbol was polled RETRY_COUNT times in vain in this cycle: the loop is at
\* the second one, the first one's monitor holds a bar older than the expected one, and
\* nothing was sent
C27_GaveUpOnFirstSymbol ==
    /\ Timed
    /\ target # None
    /\ clock >= target
    /\ pos = 2
    /\ tries = 0
    /\ state[Symbols[1]].curr_ts # None
    /\ state[Symbols[1]].curr_ts < Wanted
    /\ calls = <<>>
    /\ trades_log = <<>>

-----------------------------------------------------------------------------
(* The bars the timed loop acts on (Spec) *)

\* what a step appends to a sequence
Added(before, after) == {after[i] : i \in (Len(before) + 1)..Len(after)}

\* the bar of a broker call, a log event or a notification is the one the cycle that
\* waits for `target` expects, or a newer one, and is not older than the bar that
\* closed at that boundary
OfThisCycle(e) ==
    /\ target # None
    /\ FromIso(e.as_of) >= Wanted
    /\ FromIso(e.as_of) >= expected_open_utc(target)

\* C28: whatever the timed loop sends to the broker, writes to the event log, hands to
\* the notification channels or marks as sent is for a Snapshot whose as_of is at or
\* after the timestamp expected in the cycle (the open time of the bar that closed at
\* the boundary in mode "open", its close time in mode "close"), so never for a bar
\* older than the one that closed in the cycle
C28_OnlyExpectedBar ==
    [][(Timed /\ run' = run) =>
          /\ \A e \in Added(calls, calls') : OfThisCycle(e)
          /\ \A e \in Added(trades_log, trades_log') : OfThisCycle(e)
          /\ \A e \in Added(notified, notified') : OfThisCycle(e)
          /\ \A sym \in SymbolSet :
                last_sent_by_symbol'[sym] # last_sent_by_symbol[sym]
                => /\ target # None
                   /\ FromIso(last_sent_by_symbol'[sym]) >= Wanted]_vars

\* an order went out in the cycle at hand for the first symbol, on the bar that closed
\* at the boundary, while the second symbol's monitor holds an older bar
C28_OrderOnClosedBar ==
    /\ Timed
    /\ target # None
    /\ pos = 2
    /\ Parents(calls) # {}
    /\ \A i \in DOMAIN calls :
          /\ calls[i].symbol = Symbols[1]
          /\ FromIso(calls[i].as_of) = expected_open_utc(target)
    /\ last_sent_by_symbol[Symbols[1]] = IsoZ(state[Symbols[1]].curr_ts)

-----------------------------------------------------------------------------
(* The trade-event log of the timed loop (Spec) *)

\* the step acts on a signal that passed `last_sent_by_symbol.get(sym) == snap.as_of`:
\* the bar is marked as sent at the end of the symbol's iteration
Attempt == Timed /\ run' = run /\ last_sent_by_symbol' # last_sent_by_symbol

\* the bracket submission of the step raised
SubmissionRaised ==
    \E l \in Added(console, console') : l.line = "ERROR placing bracket"

\* the event the claim expects of an attempt
EventDue ==
    IF DRY_RUN THEN "DRY_RUN_SIGNAL"
    ELSE IF SubmissionRaised THEN "ORDER_ERROR" ELSE "ORDER_SENT"

\* the events written stay as they are, in their places
LogKept ==
    /\ Len(trades_log') >= Len(trades_log)
    /\ SubSeq(trades_log', 1, Len(trades_log)) = trades_log

\* C29: in the timed loop every signal that passes the per-bar duplicate check appends
\* exactly one event to the trade-event log, DRY_RUN_SIGNAL in dry-run, ORDER_SENT when
\* the bracket submission returns and ORDER_ERROR when it raises; no other step writes
\* to the log, and the events written are never changed or removed
C29_EveryAttemptLogged ==
    [][Timed =>
          /\ LogKept
          /\ Attempt => /\ Len(trades_log') = Len(trades_log) + 1
                        /\ trades_log'[Len(trades_log')].event = EventDue
          /\ ~Attempt => trades_log' = trades_log]_vars

\* a bracket was submitted and its bar marked as sent, and the log has no event
C29_OrderWithoutEvent ==
    /\ Timed
    /\ ~DRY_RUN
    /\ Parents(calls) # {}
    /\ \E sym \in SymbolSet : last_sent_by_symbol[sym] # NoAsOf
    /\ trades_log = <<>>

-----------------------------------------------------------------------------
(* The seen-signal ledger of the alert loop (SpecLedger) *)

\* the entries of the ledger file
Persisted(file) == {file[i] : i \in DOMAIN file}

\* C30: an entry (symbol, as_of, signal) that is in the ledger file stays in it, over
\* every load, cycle, save and restart of the process, a failed load included
C30_LedgerAppendOnly ==
    [][Persisted(seen_file) \subseteq Persisted(seen_file')]_vars

\* the process was started again, the load of a ledger file that holds an entry failed,
\* and the loop is checking bars with an empty set of seen signals
C30_EmptySetOverLedger ==
    /\ prog = "alert_trader"
    /\ run = 2
    /\ pc = "check"
    /\ seen = {}
    /\ seen_file # <<>>

-----------------------------------------------------------------------------
(* A collaborator call that raises while a symbol is processed (Spec) *)

OrderLoop == prog \in {"signal_trader", "timed_signal_trader"}

\* the symbol after the one at hand, in the order of `mons.items()`
NextPos == (pos % Len(Symbols)) + 1

\* a step of an order loop that called get_snapshot for the symbol at hand and changed
\* the monitor's state
Polled == OrderLoop /\ run' = run /\ state'[Symbols[pos]] # state[Symbols[pos]]

\* the timed loop stays with the symbol for another try
TriesAgain == Timed /\ pos' = pos /\ tries' = tries + 1 /\ target' = target

\* the loop passes to the next symbol, of the same cycle unless the symbol was the last
PassesOn ==
    /\ pos' = NextPos
    /\ (Timed /\ pos < Len(Symbols)) => target' = target

\* C31: whatever happens while a symbol is processed, a raising collaborator call
\* included, the loop goes on with the next symbol of the cycle (or, in the timed loop,
\* polls the symbol again), and a step that does not go on to the next symbol submits
\* no order
C31_OnlyThatSymbolSkipped ==
    [][Polled => /\ TriesAgain \/ PassesOn
                 /\ ~PassesOn => calls' = calls]_vars

\* the first cycle of the timed loop is over and only the first symbol's monitor was
\* ever seeded: a call raised in the cycle and nothing was sent
C31_CycleCutShort ==
    /\ Timed
    /\ run = 1
    /\ target = None
    /\ pos = 1
    /\ clock > Clock0
    /\ state[Symbols[1]].seeded
    /\ state[Symbols[2]] = InitState
    /\ calls = <<>>

-----------------------------------------------------------------------------
(* Notifications and the event log in an attempt (SpecFun) *)

AttemptDone == prog = "function" /\ fin.fn = "attempt" /\ fout.done

\* C32: whether the trade-log write, the Telegram message and the e-mail of an attempt
\* succeed or fail, no exception reaches the loop, the calls made to the broker are
\* those of the attempt in which all three succeed, and the bar is marked as sent
C32_NotificationsDoNotMatter ==
    AttemptDone =>
        LET ref == AttemptOf(fin, TRUE, TRUE, TRUE)
        IN  /\ ~fout.reached
            /\ fout.calls = ref.calls
            /\ fout.marked
            /\ ref.marked

\* a live attempt whose bracket went out whole while the log write and both channels
\* failed: nothing is in the log, nothing was delivered, and the bar is marked
C32_AllThreeFailed ==
    /\ AttemptDone
    /\ ~DRY_RUN
    /\ ~fin.okLog /\ ~fin.okTg /\ ~fin.okMail
    /\ Len(fout.calls) = 4
    /\ fout.log = <<>>
    /\ fout.sent = <<>>
    /\ fout.marked

-----------------------------------------------------------------------------
(* _poll_fill_price on its own (SpecFun) *)

PollDone == prog = "function" /\ fin.fn = "poll" /\ fout.done

\* what search_trades answers to the k-th call
Answered(k) == fin.script[Min(k, Len(fin.script))]

\* the trades of the requested contract in a response, and those whose price converts
OfContract(resp) ==
    {i \in DOMAIN resp.trades : resp.trades[i].contractId = fin.contract_id}
Priced(resp) == {i \in OfContract(resp) : resp.trades[i].price # None}

\* the greatest of a set of indices: the trade met first when scanning from the end
Latest(I) == CHOOSE i \in I : \A j \in I : j <= i

\* the calls within the bound
Waits == 1..fin.max_wait_sec

\* the first call, if any, that ends the polling when the trades in `Found` count
EndsAt(k, Found(_)) ==
    /\ k \in Waits
    /\ Answered(k).err \/ Found(Answered(k)) # {}
    /\ \A j \in 1..(k - 1) : ~Answered(j).err /\ Found(Answered(j)) = {}

\* the outcome of the polling when the trades in `Found` count
Outcome(Found(_)) ==
    /\ fout.n <= fin.max_wait_sec
    /\ IF \E k \in Waits : EndsAt(k, Found)
       THEN LET k == CHOOSE j \in Waits : EndsAt(j, Found)
                resp == Answered(k)
            IN  /\ fout.n = k
                /\ fout.raised = resp.err
                /\ fout.fill = IF resp.err THEN None
                               ELSE resp.trades[Latest(Found(resp))].price
       ELSE /\ fout.n = fin.max_wait_sec
            /\ ~fout.raised
            /\ fout.fill = None

\* C33 as stated: _poll_fill_price makes at most max_wait_sec search_trades calls and
\* returns, as soon as a result holds a trade of the requested contract, the price
\* of the one met first when the result is scanned from its end, and None once the
\* bound is reached
C33_FirstTradeOfContract == PollDone => Outcome(OfContract)

\* C33: _poll_fill_price makes at most max_wait_sec search_trades calls and returns, as
\* soon as a result holds a trade of the requested contract whose price converts to a
\* number, the price of the one met first when the result is scanned from its end; a
\* trade whose price does not convert is passed over; it returns None once the bound
\* is reached, and a search_trades call that raises ends it with that exception
C33_FirstPricedTradeOfContract == PollDone => Outcome(Priced)

\* the second search showed the contract's trade behind one whose price does not
\* convert, and the older trade's price was returned
C33_PassedOverUnpriced ==
    /\ PollDone
    /\ fout.n = 2
    /\ fout.fill = FillOf(fin.contract_id)
    /\ Priced(Answered(2)) # OfContract(Answered(2))
    /\ Latest(OfContract(Answered(2))) > Latest(Priced(Answered(2)))

-----------------------------------------------------------------------------
(* The end of the smoothing buffer (SpecMon) *)

\* C34: in every seeded state of the monitor, after a seed, a recompute or an advance
\* and with smoothing on or off, the smoothing buffer is not empty and its last
\* element is the base slow EMA of the current bar
C34_BufferEndsAtCurrent ==
    (prog = "monitor" /\ Mon.seeded) =>
        /\ Mon.ema200_buf # <<>>
        /\ Mon.ema200_buf[Len(Mon.ema200_buf)] = Mon.curr_e200_base

\* with smoothing off the monitor advanced to a newer bar and the buffer ends at the
\* base slow EMA of the bar before the current one
C34_BufferEndsAtPrevious ==
    /\ prog = "monitor"
    /\ mon.op = "_advance_incremental"
    /\ Mon.seeded
    /\ ~SmoothOn
    /\ Mon.ema200_buf[Len(Mon.ema200_buf)] = Mon.prev_e200_base
    /\ Mon.prev_e200_base # Mon.curr_e200_base

-----------------------------------------------------------------------------
(* A recompute that fails after an advance (SpecMon) *)

\* get_snapshot advanced the state to the last closed bar and the _recalc_tail it
\* called next found no bars, or fewer than REQUIRED_BARS
RecalcFailedAfterAdvance ==
    /\ prog = "monitor"
    /\ mon.op = "get_snapshot"
    /\ mon.ok
    /\ Called(mon.steps, "_advance_incremental")
    /\ Called(mon.steps, "_recalc_tail")
    /\ (TailBars = <<>> \/ Len(TailBars) < REQUIRED_BARS)

\* C35: when _recalc_tail fails after the advance of get_snapshot, get_snapshot still
\* returns a Snapshot of the new bar: the state is the one _advance_incremental left
\* (prev is the former curr, the fast and the base slow EMA are one step of the
\* recurrence from the former ones, one bar more is counted), and the Snapshot's
\* EMAs, colour and signal are those of that state
C35_AdvanceKeptWhenRecalcFails ==
    RecalcFailedAfterAdvance =>
        /\ Mon = _advance_incremental(mon.before, MonLast.t, MonLast.c)
        /\ Mon.prev_ts = mon.before.curr_ts
        /\ Mon.prev_e50 = mon.before.curr_e50
        /\ Mon.curr_ts = MonLast.t
        /\ Mon.curr_close = MonLast.c
        /\ OneStep(mon.before.curr_e50, MonLast.c, PERIOD_FAST, Mon.curr_e50)
        /\ OneStep(mon.before.curr_e200_base, MonLast.c, PERIOD_SLOW, Mon.curr_e200_base)
        /\ Mon.bars = mon.before.bars + 1
        /\ mon.snap.has
        /\ mon.snap = MakeSnapshot(MonSym, Mon)
        /\ mon.snap.as_of = IsoZ(MonLast.t)
        /\ mon.snap.ema50 = Mon.curr_e50

\* the bar source holds fewer than REQUIRED_BARS bars when the new bar comes: the
\* recompute failed and the Snapshot of the new bar carries a signal
C35_SignalFromRecurrence ==
    /\ RecalcFailedAfterAdvance
    /\ mon.snap.has
    /\ mon.snap.signal \in {"LONG", "SHORT"}
    /\ mon.snap.as_of = IsoZ(MonLast.t)

-----------------------------------------------------------------------------
(* get_snapshot called again on the same bars (SpecMon) *)

\* get_snapshot on the monitor's state and the bars as they are, no call raising
Again == get_snapshot(MonSym, Mon, tail[MonSym], 0)

\* C36: a get_snapshot that follows another one while the bars are the same leaves the
\* state as it is and returns what the first returned, a Snapshot equal in every field
\* or the same refusal; and whatever brought a seeded state to the last closed bar, a
\* get_snapshot on it changes nothing
C36_SnapshotIdempotent ==
    /\ (prog = "monitor" /\ mon.op = "get_snapshot" /\ mon.ok) =>
            \E r \in {Again} :
                /\ ~r.raised
                /\ r.st = Mon
                /\ r.snap = mon.snap
                /\ r.msg = mon.msg
    /\ (prog = "monitor" /\ Mon.seeded /\ Mon.curr_ts = MonLast.t) =>
            \E r \in {Again} : r.st = Mon /\ r.snap = MakeSnapshot(MonSym, Mon)

\* get_snapshot advanced to a new bar and returned its Snapshot with a signal: the
\* next call has no newer bar to take
C36_SecondCallAfterAdvance ==
    /\ prog = "monitor"
    /\ mon.op = "get_snapshot"
    /\ mon.ok
    /\ Called(mon.steps, "_advance_incremental")
    /\ mon.snap.has
    /\ mon.snap.signal \in {"LONG", "SHORT"}
    /\ Mon.curr_ts = MonLast.t
    /\ Mon # mon.before

-----------------------------------------------------------------------------
(* get_debug_state and the Snapshot (SpecSig) *)

\* every value the colour and the signal are worked out from is in the state
AllPresent(st) ==
    None \notin {st.prev_close, st.prev_e50, st.prev_e200_base,
                 st.curr_close, st.curr_e50, st.curr_e200_base, st.curr_ts, st.curr_e200}

\* C37: on every state with all values present the signal and the colour that
\* get_debug_state reports are those of the Snapshot get_snapshot makes of the same
\* state, and get_debug_state leaves the state as it is
C37_DebugAgreesWithSnapshot ==
    (prog = "signals" /\ AllPresent(Mon)) =>
        \E d \in {get_debug_state(Mon)}, snap \in {MakeSnapshot(MonSym, Mon)} :
            /\ d.st = Mon
            /\ snap.has
            /\ d.signal = snap.signal
            /\ d.color = snap.color

\* a state on which the Snapshot has a signal and a colour other than gray, after a
\* get_snapshot of the driving loop (a cross leaves the band, so never yellow)
C37_DebugOfSignal ==
    /\ prog = "signals"
    /\ shots # <<>>
    /\ shots[Len(shots)].st = Mon
    /\ AllPresent(Mon)
    /\ get_debug_state(Mon).signal = "SHORT"
    /\ get_debug_state(Mon).color = "red"

-----------------------------------------------------------------------------
(* The displayed slow EMA and the signal (SpecSig) *)

\* displayed slow EMAs to put in the place of those of `st`: on either side of the
\* fast EMA and of the close, the base value, and NaN
DisplayedOf(e50, close, base) == {e50 - 1, e50 + 1, close, base, base + Unit, NaN}

\* the states that agree with `st` on the closes, the fast EMA and the base slow EMA of
\* prev and curr, with other displayed slow EMAs and another smoothing buffer
SameBase(st) ==
    {[st EXCEPT !.prev_e200 = p, !.curr_e200 = c, !.ema200_buf = b] :
        p \in DisplayedOf(st.prev_e50, st.prev_close, st.prev_e200_base),
        c \in DisplayedOf(st.curr_e50, st.curr_close, st.curr_e200_base),
        b \in {<<>>, <<st.curr_e50>>, st.ema200_buf}}

\* C38: states that agree on the closes, the fast EMA and the base slow EMA of prev and
\* curr give the same signal and the same colour, whatever their displayed slow EMAs and
\* their smoothing buffer
C38_SignalFromBaseOnly ==
    (prog = "signals" /\ AllPresent(Mon)) =>
        \E snap \in {MakeSnapshot(MonSym, Mon)} :
            \A other \in SameBase(Mon) :
                \E o \in {MakeSnapshot(MonSym, other)} :
                    /\ o.has
                    /\ o.signal = snap.signal
                    /\ o.color = snap.color

\* smoothing is on, the displayed slow EMA of curr is not the base one and lies on the
\* other side of the fast EMA, and the Snapshot has a signal
C38_DisplayedOnOtherSide ==
    /\ prog = "signals"
    /\ SmoothOn
    /\ AllPresent(Mon)
    /\ Mon.curr_e200 # Mon.curr_e200_base
    /\ (Mon.curr_e200 > Mon.curr_e50) # (Mon.curr_e200_base > Mon.curr_e50)
    /\ MakeSnapshot(MonSym, Mon).signal # "None"

-----------------------------------------------------------------------------
(* Whose trade the fill price is (SpecFun) *)

\* the trade _poll_fill_price returned the price of: the latest trade of the contract
\* with a price, in the response of its last search_trades call
Returned == Answered(fout.n).trades[Latest(Priced(Answered(fout.n)))]

PollFilled == PollDone /\ ~fout.raised /\ fout.fill # None

\* C39: the price _poll_fill_price returns is the price of a trade of the parent order,
\* never that of a trade of the contract executed for an order placed before it
C39_FillOfParentOrder ==
    PollFilled => (Returned.price = fout.fill /\ Returned.orderId = "parent")

\* _poll_fill_price returned on its first call the price of a trade of an earlier order
\* on the contract, the response showing no trade of the parent order at all
C39_FillOfEarlierOrder ==
    /\ PollFilled
    /\ fout.n = 1
    /\ Returned.price = fout.fill
    /\ Returned.orderId = "earlier"
    /\ \A i \in DOMAIN Answered(1).trades : Answered(1).trades[i].orderId # "parent"

====
